---- MODULE Spec2Model ----
(***************************************************************************)
(* Annotation lifecycle (api/services/annotation_service.py,               *)
(* api/routers/annotations.py) and NLU export pipeline                     *)
(* (api/services/export_service.py, api/routers/export.py) of the          *)
(* training platform.                                                      *)
(*                                                                         *)
(* Strings that the code inspects character by character (message text,    *)
(* intent labels, entity types, the YAML document) are sequences of        *)
(* one-character strings, as is the rejection reason.  Role and status     *)
(* values are TLA+ strings.                                                *)
(***************************************************************************)
EXTENDS Integers, Sequences, FiniteSets, TLC

\* None for string-valued columns and fields; no text equals it because
\* every text is a sequence of one-character strings.
NULL == <<"None">>
\* None for the integer foreign keys (ids start at 1) and for timestamps
NullId == 0
NullTime == -1

\* ---------------------------------------------------------------- bounds
MaxAnnotations == 2   \* annotation ids 1..MaxAnnotations are ever assigned
MaxLog == 3           \* rows the activity log may hold
MaxTime == 1          \* last tick of the clock behind datetime.utcnow()
MaxSessions == 2      \* concurrent request sessions of the interleaved spec
TicksPerDay == 2      \* clock ticks in a calendar day
MaxRows == 2          \* rows of the stores the export requests are served on

\* ----------------------------------------------------------------- users
\* platform_users rows: id -> role.  "intern" is a role string that is not
\* a key of role_levels.
Users == 1..6

UserRole(u) ==
  CASE u = 1 -> "viewer"
    [] u = 2 -> "developer"
    [] u = 3 -> "qa_analyst"
    [] u = 4 -> "qa_lead"
    [] u = 5 -> "admin"
    [] OTHER -> "intern"

\* role_levels.get(role, default)
role_levels(role, default) ==
  CASE role = "viewer" -> 1
    [] role = "developer" -> 2
    [] role = "qa_analyst" -> 3
    [] role = "qa_lead" -> 4
    [] role = "admin" -> 5
    [] OTHER -> default

\* variant: an unknown role falls back to the highest level instead of 0
_check_role_permission_default(user, min_role) ==
  ~(role_levels(UserRole(user), 999) < role_levels(min_role, 999))

\* _check_role_permission: TRUE when no HTTPException(403) is raised
_check_role_permission(user, min_role) ==
  ~(role_levels(UserRole(user), 0) < role_levels(min_role, 999))

\* _check_export_permission: TRUE when no HTTPException(403) is raised
_check_export_permission(user) ==
  ~(role_levels(UserRole(user), 0) < 4)

\* ------------------------------------------------------- request payloads
Statuses == {"pending", "approved", "rejected", "trained", "deployed"}

\* intent labels and entity types
Intents == {<<"a">>, <<"b">>}
EntityTypes == {<<"p">>, <<"q">>}

\* corrected_entities lists: entity dicts with keys entity, value, start, end
Ent(type, text, s, e) ==
  [entity |-> type, value |-> SubSeq(text, s + 1, e), start |-> s, end |-> e]

\* AnnotationCreate bodies: an intent correction without entities, one
\* with an entity, and an entity-only correction (corrected_intent None)
AnnotationCreate ==
  {[message_text |-> <<"h", "i">>, corrected_intent |-> <<"a">>,
    corrected_entities |-> <<>>],
   [message_text |-> <<"y", "o">>, corrected_intent |-> <<"a">>,
    corrected_entities |-> <<Ent(<<"p">>, <<"y", "o">>, 0, 1)>>],
   [message_text |-> <<"h", "i">>, corrected_intent |-> NULL,
    corrected_entities |-> <<Ent(<<"q">>, <<"h", "i">>, 1, 2)>>]}

\* AnnotationUpdate bodies after model_dump(exclude_unset=True): the set of
\* fields the client sent, with their values.  The editable fields are the
\* correction fields of the record; status and the review fields are not
\* among them.
AnnotationUpdate ==
  {[fields |-> {"corrected_intent"}, corrected_intent |-> <<"b">>,
    corrected_entities |-> <<>>],
   [fields |-> {"corrected_intent"}, corrected_intent |-> NULL,
    corrected_entities |-> <<>>],
   [fields |-> {"corrected_entities"}, corrected_intent |-> NULL,
    corrected_entities |-> <<>>]}

\* AnnotationApprovalRequest bodies
AnnotationApprovalRequest ==
  [approved : {FALSE}, rejection_reason : {NULL, <<>>, <<"t">>}]
  \cup [approved : {TRUE}, rejection_reason : {NULL, <<"t">>}]

\* Request validation of AnnotationApprovalRequest: a rejection carries a
\* non-empty rejection_reason.
ApprovalRequestValid(approval) ==
  approval.approved
    \/ (approval.rejection_reason # NULL /\ approval.rejection_reason # <<>>)

\* ------------------------------------------------------------------ state
VARIABLES
  annotations,     \* annotations table: id -> row, for the rows that exist
  next_id,         \* next value of the annotations.id sequence
  activity_logs,   \* number of rows of the activity_logs table
  now,             \* clock read by datetime.utcnow()
  response,        \* the response of the last finished request
  sessions         \* interleaved spec: per request, its step and loaded row

vars == <<annotations, next_id, activity_logs, now, response, sessions>>

NoResponse == [op |-> "none", code |-> 0, user |-> NullId, id |-> NullId]

IdleSession == [pc |-> "idle"]

Init ==
  /\ annotations = <<>>
  /\ next_id = 1
  /\ activity_logs = 0
  /\ now = 0
  /\ response = NoResponse
  /\ sessions = [s \in 1..MaxSessions |-> IdleSession]

\* ------------------------------------------------------ service helpers
\* log_activity: one ActivityLog row added and committed
log_activity(log, user_id, action, entity_id) ==
  log + 1

\* _check_annotation_exists: TRUE when the row is found (else 404)
_check_annotation_exists(table, annotation_id) ==
  annotation_id \in DOMAIN table

\* variant: the creator check covers 'update' only
_check_user_permissions_update_only(annotation, user_id, user_role, operation) ==
  IF user_role = "admin" THEN 0
  ELSE IF operation \in {"update", "delete"} THEN
         IF operation = "update" /\ annotation.annotated_by # user_id THEN 403
         ELSE IF annotation.status \notin {"pending", "rejected"} THEN 400
         ELSE 0
  ELSE IF operation = "approve" THEN
         IF user_role \notin {"qa_lead", "admin"} THEN 403 ELSE 0
  ELSE 0

\* _check_user_permissions: 0 when it returns, else the status code of the
\* HTTPException it raises
_check_user_permissions(annotation, user_id, user_role, operation) ==
  IF user_role = "admin" THEN 0
  ELSE IF operation \in {"update", "delete"} THEN
         IF annotation.annotated_by # user_id THEN 403
         ELSE IF annotation.status \notin {"pending", "rejected"} THEN 400
         ELSE 0
  ELSE IF operation = "approve" THEN
         IF user_role \notin {"qa_lead", "admin"} THEN 403 ELSE 0
  ELSE 0

\* db handle of a request: the two tables the lifecycle handlers touch
Db(table, log) == [annotations |-> table, activity_logs |-> log]

\* result of a service call: status code (2xx on return, else the code of
\* the HTTPException raised) and the database after it
Result(code, db) == [code |-> code, db |-> db]

\* ------------------------------------------------- annotation_service.py
\* create_annotation: inserts the row with the next id, logs, returns 201.
\* approved_by, approved_at and rejection_reason are the columns that
\* approve_annotation writes and get_approved_annotations filters and sorts
\* by; the Annotation class of schemas/db_models.py does not declare them
\* (it has reviewed_by and reviewed_at), the model takes them as columns.
create_annotation(db, id, annotation, user_id) ==
  LET row == [message_text |-> annotation.message_text,
              corrected_intent |-> annotation.corrected_intent,
              corrected_entities |-> annotation.corrected_entities,
              status |-> "pending",
              annotated_by |-> user_id,
              approved_by |-> NullId,
              approved_at |-> NullTime,
              rejection_reason |-> NULL]
      table == [i \in DOMAIN db.annotations \cup {id} |->
                  IF i = id THEN row ELSE db.annotations[i]]
  IN Result(201, Db(table,
        log_activity(db.activity_logs, user_id, "annotation_created", id)))

\* the loop "for field, value in update_data.items(): setattr(...)"
apply_update(annotation, update_data) ==
  [annotation EXCEPT
     !.corrected_intent =
        IF "corrected_intent" \in update_data.fields
        THEN update_data.corrected_intent ELSE @,
     !.corrected_entities =
        IF "corrected_entities" \in update_data.fields
        THEN update_data.corrected_entities ELSE @]

\* update_annotation
update_annotation(db, annotation_id, annotation_update, user_id, user_role) ==
  IF ~_check_annotation_exists(db.annotations, annotation_id)
  THEN Result(404, db)
  ELSE LET annotation == db.annotations[annotation_id]
           denied == _check_user_permissions(annotation, user_id, user_role,
                                             "update")
       IN IF denied # 0 THEN Result(denied, db)
          ELSE Result(200,
                 Db([db.annotations EXCEPT ![annotation_id] =
                       apply_update(annotation, annotation_update)],
                    log_activity(db.activity_logs, user_id,
                                 "annotation_updated", annotation_id)))

\* delete_annotation
delete_annotation(db, annotation_id, user_id, user_role) ==
  IF ~_check_annotation_exists(db.annotations, annotation_id)
  THEN Result(404, db)
  ELSE LET annotation == db.annotations[annotation_id]
           denied == _check_user_permissions(annotation, user_id, user_role,
                                             "delete")
       IN IF denied # 0 THEN Result(denied, db)
          ELSE Result(204,
                 Db([i \in DOMAIN db.annotations \ {annotation_id} |->
                       db.annotations[i]],
                    log_activity(db.activity_logs, user_id,
                                 "annotation_deleted", annotation_id)))

\* the four assignments of approve_annotation ("Update annotation")
apply_approval(annotation, approval, user_id, utcnow) ==
  [annotation EXCEPT
     !.status = IF approval.approved THEN "approved" ELSE "rejected",
     !.approved_by = user_id,
     !.approved_at = utcnow,
     !.rejection_reason =
        IF ~approval.approved THEN approval.rejection_reason ELSE NULL]

\* variant: the status check is missing
approve_status_guard_missing(annotation) ==
  TRUE

\* the status check of approve_annotation: TRUE when it lets the call go on
approve_status_guard(annotation) ==
  ~(annotation.status # "pending")

\* approve_annotation
approve_annotation(db, annotation_id, approval, user_id, user_role, utcnow) ==
  IF ~_check_annotation_exists(db.annotations, annotation_id)
  THEN Result(404, db)
  ELSE LET annotation == db.annotations[annotation_id]
           denied == _check_user_permissions(annotation, user_id, user_role,
                                             "approve")
       IN IF denied # 0 THEN Result(denied, db)
          ELSE IF ~approve_status_guard(annotation) THEN Result(400, db)
          ELSE Result(200,
                 Db([db.annotations EXCEPT ![annotation_id] =
                       apply_approval(annotation, approval, user_id, utcnow)],
                    log_activity(db.activity_logs, user_id,
                                 IF approval.approved
                                 THEN "annotation_approved"
                                 ELSE "annotation_rejected",
                                 annotation_id)))

\* ---------------------------------------------------- export_service.py
Min(a, b) == IF a < b THEN a ELSE b
Max(a, b) == IF a > b THEN a ELSE b

\* Python's s[a:b] for a string s (offsets count from 0, a negative offset
\* counts from the end, offsets past the ends are clamped)
Slice(s, a, b) ==
  LET n == Len(s)
      lo == IF a < 0 THEN Max(a + n, 0) ELSE Min(a, n)
      hi == IF b < 0 THEN Max(b + n, 0) ELSE Min(b, n)
  IN IF lo >= hi THEN <<>> ELSE SubSeq(s, lo + 1, hi)

\* the characters in code point order, for the comparison of str values
Alphabet ==
  <<"\n", " ", "\"", "(", ")", "-", ".", "1", "3", ":", "[", "]",
    "a", "b", "d", "e", "h", "i", "l", "m", "n", "o", "p", "q", "r", "s",
    "t", "u", "v", "x", "y", "z", "|">>

ord(c) == CHOOSE i \in 1..Len(Alphabet) : Alphabet[i] = c

\* a < b for str values
RECURSIVE StrLess(_, _)
StrLess(a, b) ==
  IF b = <<>> THEN FALSE
  ELSE IF a = <<>> THEN TRUE
  ELSE IF Head(a) = Head(b) THEN StrLess(Tail(a), Tail(b))
  ELSE ord(Head(a)) < ord(Head(b))

\* sorted(entities, key=lambda e: e['start'], reverse=True): a stable sort,
\* entities with equal start keep their order
RECURSIVE sorted_by_start_reverse(_)
sorted_by_start_reverse(entities) ==
  IF entities = <<>> THEN <<>>
  ELSE LET first == Head(entities)
           rest == sorted_by_start_reverse(Tail(entities))
           before == SelectSeq(rest, LAMBDA e : e.start > first.start)
           after == SelectSeq(rest, LAMBDA e : ~(e.start > first.start))
       IN before \o <<first>> \o after

\* the loop of _format_entity_in_text over the sorted entities
RECURSIVE splice_entities(_, _, _)
splice_entities(text, result, sorted_entities) ==
  IF sorted_entities = <<>> THEN result
  ELSE LET entity == Head(sorted_entities)
           entity_text == Slice(text, entity.start, entity.end)
           markdown_entity ==
             <<"[">> \o entity_text \o <<"]", "(">> \o entity.entity \o <<")">>
       IN splice_entities(text,
            Slice(result, 0, entity.start) \o markdown_entity
              \o Slice(result, entity.end, Len(result)),
            Tail(sorted_entities))

\* the substitution without the sort: entities taken in list order
_format_entity_in_text_list_order(text, entities) ==
  IF entities = <<>> THEN text
  ELSE splice_entities(text, text, entities)

\* _format_entity_in_text
_format_entity_in_text(text, entities) ==
  IF entities = <<>> THEN text
  ELSE splice_entities(text, text, sorted_by_start_reverse(entities))

\* "not intent" for a str or None
Falsy(str) == str = NULL \/ str = <<>>

\* the dict nlu_dict, in insertion order: a sequence of [intent, examples]
DictKeys(dict) == {dict[i].intent : i \in DOMAIN dict}
DictGet(dict, intent) ==
  dict[CHOOSE i \in DOMAIN dict : dict[i].intent = intent].examples
InSeq(x, seq) == \E i \in DOMAIN seq : seq[i] = x

\* the loop pass without the "not in" test: every example appended
nlu_dict_add_no_dedup(nlu_dict, annotation) ==
  LET intent == annotation.corrected_intent
      formatted_example ==
        _format_entity_in_text(annotation.message_text,
                               annotation.corrected_entities)
      with_key == IF intent \in DictKeys(nlu_dict) THEN nlu_dict
                  ELSE Append(nlu_dict, [intent |-> intent, examples |-> <<>>])
  IN IF Falsy(intent) THEN nlu_dict
     ELSE [i \in DOMAIN with_key |->
            IF with_key[i].intent = intent
            THEN [with_key[i] EXCEPT
                    !.examples = Append(@, formatted_example)]
            ELSE with_key[i]]

\* the loop pass with the "not in" test made against the examples of every
\* intent: an example already listed under another intent is not appended
nlu_dict_add_global_dedup(nlu_dict, annotation) ==
  LET intent == annotation.corrected_intent
      formatted_example ==
        _format_entity_in_text(annotation.message_text,
                               annotation.corrected_entities)
      with_key == IF intent \in DictKeys(nlu_dict) THEN nlu_dict
                  ELSE Append(nlu_dict, [intent |-> intent, examples |-> <<>>])
  IN IF Falsy(intent) THEN nlu_dict
     ELSE [i \in DOMAIN with_key |->
            IF with_key[i].intent = intent
                 /\ \A k \in DOMAIN with_key :
                      ~InSeq(formatted_example, with_key[k].examples)
            THEN [with_key[i] EXCEPT
                    !.examples = Append(@, formatted_example)]
            ELSE with_key[i]]

\* one pass of the loop of convert_annotations_to_nlu_dict
nlu_dict_add(nlu_dict, annotation) ==
  LET intent == annotation.corrected_intent
      formatted_example ==
        _format_entity_in_text(annotation.message_text,
                               annotation.corrected_entities)
      with_key == IF intent \in DictKeys(nlu_dict) THEN nlu_dict
                  ELSE Append(nlu_dict, [intent |-> intent, examples |-> <<>>])
  IN IF Falsy(intent) THEN nlu_dict
     ELSE [i \in DOMAIN with_key |->
            IF with_key[i].intent = intent
                 /\ ~InSeq(formatted_example, with_key[i].examples)
            THEN [with_key[i] EXCEPT
                    !.examples = Append(@, formatted_example)]
            ELSE with_key[i]]

\* convert_annotations_to_nlu_dict
RECURSIVE nlu_dict_from(_, _)
nlu_dict_from(nlu_dict, annotation_list) ==
  IF annotation_list = <<>> THEN nlu_dict
  ELSE nlu_dict_from(nlu_dict_add(nlu_dict, Head(annotation_list)),
                     Tail(annotation_list))

convert_annotations_to_nlu_dict(annotation_list) ==
  nlu_dict_from(<<>>, annotation_list)

\* sorted(nlu_dict.items()): the items in ascending order of intent
RECURSIVE sorted_items(_)
sorted_items(nlu_dict) ==
  IF nlu_dict = <<>> THEN <<>>
  ELSE LET first == Head(nlu_dict)
           rest == sorted_items(Tail(nlu_dict))
           before == SelectSeq(rest, LAMBDA item :
                                 StrLess(item.intent, first.intent))
           after == SelectSeq(rest, LAMBDA item :
                                ~StrLess(item.intent, first.intent))
       IN before \o <<first>> \o after

\* "\n".join(parts)
RECURSIVE join_lines(_)
join_lines(parts) ==
  IF parts = <<>> THEN <<>>
  ELSE IF Len(parts) = 1 THEN parts[1]
  ELSE parts[1] \o <<"\n">> \o join_lines(Tail(parts))

\* the literal pieces of the document
YamlHeader ==
  <<"v", "e", "r", "s", "i", "o", "n", ":", " ", "\"", "3", ".", "1", "\"",
    "\n", "\n", "n", "l", "u", ":", "\n">>
IntentPrefix == <<"-", " ", "i", "n", "t", "e", "n", "t", ":", " ">>
ExamplesLine ==
  <<" ", " ", "e", "x", "a", "m", "p", "l", "e", "s", ":", " ", "|">>
ExamplePrefix == <<" ", " ", " ", " ", "-", " ">>

\* one pass of the loop "for item in nlu_data"
yaml_item(item) ==
  IntentPrefix \o item.intent \o <<"\n">>
    \o ExamplesLine \o <<"\n">>
    \o join_lines([i \in DOMAIN item.examples |->
                     ExamplePrefix \o item.examples[i]])
    \o <<"\n", "\n">>

RECURSIVE yaml_items(_)
yaml_items(nlu_data) ==
  IF nlu_data = <<>> THEN <<>>
  ELSE yaml_item(Head(nlu_data)) \o yaml_items(Tail(nlu_data))

\* the serializer without sorted(): blocks in the dict's insertion order
convert_to_rasa_nlu_yaml_insertion_order(nlu_dict) ==
  YamlHeader \o yaml_items(nlu_dict)

\* convert_to_rasa_nlu_yaml
convert_to_rasa_nlu_yaml(nlu_dict) ==
  YamlHeader \o yaml_items(sorted_items(nlu_dict))

\* re.findall(r'\[([^\]]+)\]\(([^)]+)\)', example): the entity types (second
\* groups) of the matches, left to right.
\* IndexFrom: offset of the first c in s at or after offset i, or -1
RECURSIVE IndexFrom(_, _, _)
IndexFrom(s, c, i) ==
  IF i >= Len(s) THEN -1
  ELSE IF s[i + 1] = c THEN i
  ELSE IndexFrom(s, c, i + 1)

\* the match that starts at offset i, as [end, type]; end = -1: no match
NoMatch == [end |-> -1, type |-> <<>>]

MatchAt(s, i) ==
  IF i >= Len(s) \/ s[i + 1] # "[" THEN NoMatch
  ELSE LET close == IndexFrom(s, "]", i + 1)
       IN IF close < i + 2 THEN NoMatch
          ELSE IF close + 1 >= Len(s) \/ s[close + 2] # "(" THEN NoMatch
          ELSE LET paren == IndexFrom(s, ")", close + 2)
               IN IF paren < close + 3 THEN NoMatch
                  ELSE [end |-> paren + 1,
                        type |-> Slice(s, close + 2, paren)]

RECURSIVE findall_entity_types(_, _)
findall_entity_types(s, i) ==
  IF i >= Len(s) THEN <<>>
  ELSE LET m == MatchAt(s, i)
       IN IF m.end < 0 THEN findall_entity_types(s, i + 1)
          ELSE <<m.type>> \o findall_entity_types(s, m.end)

\* reference vocabulary: the intents and entity types seen in the events
\* table (get_existing_intents_from_db, get_existing_entities_from_db)
existing_intents == {<<"a">>}
existing_entities == {<<"q">>}

\* warning messages
IntentWarning(intent) == [kind |-> "intent_not_found", intent |-> intent]
EntityWarning(entity_type, intent) ==
  [kind |-> "entity_not_found", entity_type |-> entity_type,
   intent |-> intent]

\* _validate_intent_exists: (is_valid, warning_message)
_validate_intent_exists(intent, intents) ==
  IF intent \in intents
  THEN [is_valid |-> TRUE, warning |-> [kind |-> "none"]]
  ELSE [is_valid |-> FALSE, warning |-> IntentWarning(intent)]

\* the loop over the entity types of the examples of one intent
\* the loop without the "not in warnings" test
RECURSIVE entity_warnings_no_dedup(_, _, _)
entity_warnings_no_dedup(warnings, intent, entity_types) ==
  IF entity_types = <<>> THEN warnings
  ELSE entity_warnings_no_dedup(
         IF Head(entity_types) \notin existing_entities
         THEN Append(warnings, EntityWarning(Head(entity_types), intent))
         ELSE warnings,
         intent, Tail(entity_types))

RECURSIVE entity_warnings(_, _, _)
entity_warnings(warnings, intent, entity_types) ==
  IF entity_types = <<>> THEN warnings
  ELSE LET warning_msg == EntityWarning(Head(entity_types), intent)
       IN entity_warnings(
            IF Head(entity_types) \notin existing_entities
                 /\ ~InSeq(warning_msg, warnings)
            THEN Append(warnings, warning_msg) ELSE warnings,
            intent, Tail(entity_types))

\* the entity types of all examples of an intent, in order
RECURSIVE types_of_examples(_)
types_of_examples(examples) ==
  IF examples = <<>> THEN <<>>
  ELSE findall_entity_types(Head(examples), 0)
         \o types_of_examples(Tail(examples))

\* the loop of validate_annotations_export over nlu_dict.items()
RECURSIVE export_warnings(_, _)
export_warnings(warnings, nlu_dict) ==
  IF nlu_dict = <<>> THEN warnings
  ELSE LET item == Head(nlu_dict)
           checked == _validate_intent_exists(item.intent, existing_intents)
           with_intent == IF checked.warning.kind # "none"
                          THEN Append(warnings, checked.warning)
                          ELSE warnings
       IN export_warnings(
            entity_warnings(with_intent, item.intent,
                            types_of_examples(item.examples)),
            Tail(nlu_dict))

\* validate_annotations_export: (errors, warnings)
validate_annotations_export(nlu_dict) ==
  [errors |-> <<>>, warnings |-> export_warnings(<<>>, nlu_dict)]

\* yaml.safe_load on the documents of this grammar: top-level "key: value"
\* lines, under "nlu:" a block sequence of mappings ("- key: value" opens
\* an item, a line indented by two spaces adds a key to it, "examples: |"
\* opens a literal block whose lines are indented by four spaces).
StartsWith(s, prefix) ==
  Len(s) >= Len(prefix) /\ SubSeq(s, 1, Len(prefix)) = prefix

RECURSIVE SplitLines(_)
SplitLines(s) ==
  LET i == IndexFrom(s, "\n", 0)
  IN IF i < 0 THEN <<s>>
     ELSE <<Slice(s, 0, i)>> \o SplitLines(Slice(s, i + 1, Len(s)))

\* the key of a "key: value" or "key:" line
KeyOf(line) ==
  LET i == IndexFrom(line, ":", 0)
  IN IF i < 0 THEN line ELSE Slice(line, 0, i)

\* the value of a "key: value" line
ValueOf(line) ==
  LET i == IndexFrom(line, ":", 0)
  IN IF i < 0 THEN <<>> ELSE Slice(line, i + 2, Len(line))

KeyVersion == <<"v", "e", "r", "s", "i", "o", "n">>
KeyNlu == <<"n", "l", "u">>
KeyIntent == <<"i", "n", "t", "e", "n", "t">>
KeyExamples == <<"e", "x", "a", "m", "p", "l", "e", "s">>

EmptyData == [keys |-> {}, nlu |-> <<>>]

yaml_line(data, line) ==
  LET last == Len(data.nlu)
  IN IF line = <<>> THEN data
     ELSE IF StartsWith(line, <<" ", " ", " ", " ">>) THEN
       IF last > 0 /\ KeyExamples \in data.nlu[last].keys
       THEN [data EXCEPT !.nlu[last].examples =
               @ \o Slice(line, 4, Len(line)) \o <<"\n">>]
       ELSE data
     ELSE IF StartsWith(line, <<" ", " ">>) THEN
       IF last > 0
       THEN [data EXCEPT !.nlu[last].keys =
               @ \cup {KeyOf(Slice(line, 2, Len(line)))}]
       ELSE data
     ELSE IF StartsWith(line, <<"-", " ">>) THEN
       LET entry == Slice(line, 2, Len(line))
       IN [data EXCEPT !.nlu =
             Append(@, [keys |-> {KeyOf(entry)},
                        intent |-> IF KeyOf(entry) = KeyIntent
                                   THEN ValueOf(entry) ELSE <<>>,
                        examples |-> <<>>])]
     ELSE [data EXCEPT !.keys = @ \cup {KeyOf(line)}]

RECURSIVE yaml_lines(_, _)
yaml_lines(data, lines) ==
  IF lines = <<>> THEN data
  ELSE yaml_lines(yaml_line(data, Head(lines)), Tail(lines))

\* data = yaml.safe_load(yaml_content); data.nlu = <<>> stands for a 'nlu'
\* key without a value (None)
yaml_safe_load(yaml_content) ==
  yaml_lines(EmptyData, SplitLines(yaml_content))

\* examples.strip() is empty
Blank(str) == \A i \in DOMAIN str : str[i] \in {" ", "\n"}

\* the loop "for idx, item in enumerate(data['nlu'])"
RECURSIVE validate_items(_, _, _)
validate_items(found, items, seen_intents) ==
  IF items = <<>> THEN found
  ELSE LET item == Head(items)
       IN IF KeyIntent \notin item.keys
          THEN validate_items(
                 [found EXCEPT !.errors = Append(@, "missing_intent")],
                 Tail(items), seen_intents)
          ELSE IF KeyExamples \notin item.keys
          THEN validate_items(
                 [found EXCEPT !.errors = Append(@, "missing_examples")],
                 Tail(items), seen_intents)
          ELSE LET dup == IF item.intent \in seen_intents
                          THEN <<"duplicate_intent">> ELSE <<>>
                   empty == IF Blank(item.examples)
                            THEN <<"no_examples">> ELSE <<>>
               IN validate_items(
                    [found EXCEPT !.warnings = @ \o dup \o empty],
                    Tail(items), seen_intents \cup {item.intent})

\* variant: an "nlu:" key without items is read as an empty list
validate_nlu_yaml_empty_list(yaml_content) ==
  LET data == yaml_safe_load(yaml_content)
      version == IF KeyVersion \notin data.keys
                 THEN <<"missing_version">> ELSE <<>>
      start == [errors |-> version, warnings |-> <<>>]
      found == IF KeyNlu \notin data.keys
               THEN [start EXCEPT !.errors = Append(@, "missing_nlu")]
               ELSE validate_items(start, data.nlu, {})
  IN [is_valid |-> found.errors = <<>>,
      errors |-> found.errors,
      warnings |-> found.warnings]

\* validate_nlu_yaml: (is_valid, errors, warnings)
validate_nlu_yaml(yaml_content) ==
  LET data == yaml_safe_load(yaml_content)
      version == IF KeyVersion \notin data.keys
                 THEN <<"missing_version">> ELSE <<>>
      start == [errors |-> version, warnings |-> <<>>]
      found == IF KeyNlu \notin data.keys
               THEN [start EXCEPT !.errors = Append(@, "missing_nlu")]
               ELSE IF data.nlu = <<>>
               THEN [start EXCEPT !.errors = Append(@, "nlu_not_a_list")]
               ELSE validate_items(start, data.nlu, {})
  IN [is_valid |-> found.errors = <<>>,
      errors |-> found.errors,
      warnings |-> found.warnings]

\* get_nlu_export_stats
RECURSIVE count_examples(_)
count_examples(nlu_dict) ==
  IF nlu_dict = <<>> THEN 0
  ELSE Len(Head(nlu_dict).examples) + count_examples(Tail(nlu_dict))

RECURSIVE all_entity_types(_)
all_entity_types(nlu_dict) ==
  IF nlu_dict = <<>> THEN <<>>
  ELSE types_of_examples(Head(nlu_dict).examples)
         \o all_entity_types(Tail(nlu_dict))

\* round(total_examples / total_intents, 2), in hundredths
avg_hundredths(total_examples, total_intents) ==
  IF total_intents > 0
  THEN (200 * total_examples + total_intents) \div (2 * total_intents)
  ELSE 0

get_nlu_export_stats(nlu_dict) ==
  LET total_intents == Len(nlu_dict)
      total_examples == count_examples(nlu_dict)
      used == all_entity_types(nlu_dict)
  IN [total_intents |-> total_intents,
      total_examples |-> total_examples,
      total_entities_used |-> Cardinality({used[i] : i \in DOMAIN used}),
      avg_examples_per_intent |-> avg_hundredths(total_examples,
                                                 total_intents)]

\* the rows of a query in one of the orders the database may return them:
\* all sequences over the ids without repetition
Orders(ids) ==
  {order \in [1..Cardinality(ids) -> ids] :
     \A i, j \in DOMAIN order : i # j => order[i] # order[j]}

\* ORDER BY corrected_intent, approved_at (ascending, NULL last): TRUE when
\* row a may not come after row b
OrderedBefore(a, b) ==
  IF a.corrected_intent = b.corrected_intent
  THEN a.approved_at <= b.approved_at
  ELSE IF a.corrected_intent = NULL THEN FALSE
  ELSE IF b.corrected_intent = NULL THEN TRUE
  ELSE StrLess(a.corrected_intent, b.corrected_intent)

NoDate == -1

\* the query of get_approved_annotations without its status filter
get_approved_annotations_any_status(table, from_date, to_date, intent_filter) ==
  LET ids == {id \in DOMAIN table :
                /\ from_date # NoDate => table[id].approved_at >= from_date
                /\ to_date # NoDate => table[id].approved_at < to_date
                /\ ~Falsy(intent_filter)
                     => table[id].corrected_intent = intent_filter}
  IN {[i \in DOMAIN order |-> table[order[i]]] :
        order \in {o \in Orders(ids) :
                     \A i, j \in DOMAIN o :
                       i < j => OrderedBefore(table[o[i]], table[o[j]])}}

\* get_approved_annotations: the lists query.all() may return; rows with
\* equal sort keys come in either order
get_approved_annotations(table, from_date, to_date, intent_filter) ==
  LET ids == {id \in DOMAIN table :
                /\ table[id].status = "approved"
                /\ from_date # NoDate => table[id].approved_at >= from_date
                /\ to_date # NoDate => table[id].approved_at < to_date
                /\ ~Falsy(intent_filter)
                     => table[id].corrected_intent = intent_filter}
  IN {[i \in DOMAIN order |-> table[order[i]]] :
        order \in {o \in Orders(ids) :
                     \A i, j \in DOMAIN o :
                       i < j => OrderedBefore(table[o[i]], table[o[j]])}}

\* ---------------------------------------------------------- requests
\* Each handler is one request served from start to finish: it leaves the
\* response, and Respond hands it to the client and ends the request.  A
\* request that adds an activity log row is served only while the log has
\* room.
LogHasRoom(result) == result.db.activity_logs <= MaxLog

Idle == response = NoResponse

\* the response is sent and the request's database session closed (get_db)
Respond ==
  /\ response # NoResponse
  /\ response' = NoResponse
  /\ UNCHANGED <<annotations, next_id, activity_logs, now, sessions>>

\* --------------------------------------------------- routers/export.py
\* query parameters from_date and to_date: absent (NoDate), a calendar day
\* "YYYY-MM-DD" given by its number, or a string strptime rejects (BadDate)
BadDate == -2

\* datetime.strptime(date, "%Y-%m-%d"): midnight of the day
strptime(date) == date * TicksPerDay

ExportFilters ==
  {[from_date |-> NoDate, to_date |-> NoDate, intent_filter |-> NULL],
   [from_date |-> NoDate, to_date |-> NoDate, intent_filter |-> <<"b">>],
   [from_date |-> 0, to_date |-> 1, intent_filter |-> NULL],
   [from_date |-> NoDate, to_date |-> 0, intent_filter |-> <<>>],
   [from_date |-> BadDate, to_date |-> NoDate, intent_filter |-> NULL]}

ParseDate(date) == IF date = NoDate THEN NoDate ELSE strptime(date)

\* "# No approved annotations found for the specified criteria", as one
\* token: no rendered document equals it
Placeholder == <<"# No approved annotations found for the specified criteria">>

\* variant: the empty result is rendered like any other
preview_body_no_empty_case(annotation_list) ==
  LET nlu_dict == convert_annotations_to_nlu_dict(annotation_list)
      yaml_content == convert_to_rasa_nlu_yaml(nlu_dict)
      format == validate_nlu_yaml(yaml_content)
      data == validate_annotations_export(nlu_dict)
      all_errors == format.errors \o data.errors
      all_warnings == format.warnings \o data.warnings
      stats_dict == get_nlu_export_stats(nlu_dict)
  IN [yaml_content |-> yaml_content,
      stats |-> [total_intents |-> stats_dict.total_intents,
                 total_examples |-> stats_dict.total_examples,
                 total_entities_used |-> stats_dict.total_entities_used,
                 avg_examples_per_intent |->
                   stats_dict.avg_examples_per_intent,
                 total_annotations |-> Len(annotation_list)],
      validation_errors |-> all_errors,
      validation_warnings |-> all_warnings,
      is_valid |-> format.is_valid,
      can_export |-> Len(all_errors) = 0]

\* variant: warnings block the export like errors
preview_body_warnings_block(annotation_list) ==
  LET body == preview_body_no_empty_case(annotation_list)
  IN IF annotation_list = <<>>
     THEN [body EXCEPT !.yaml_content = Placeholder,
                       !.validation_warnings = <<"no_annotations">>,
                       !.is_valid = FALSE, !.can_export = FALSE]
     ELSE [body EXCEPT !.can_export =
             Len(body.validation_errors) = 0
               /\ Len(body.validation_warnings) = 0]

\* variant: total_annotations counts the examples kept, not the rows read
preview_body_counts_examples(annotation_list) ==
  LET body == preview_body_warnings_block(annotation_list)
  IN [body EXCEPT
        !.can_export = Len(body.validation_errors) = 0
                         /\ annotation_list # <<>>,
        !.stats.total_annotations = body.stats.total_examples]

\* the body of preview_nlu_export after the query
preview_body(annotation_list) ==
  IF annotation_list = <<>>
  THEN [yaml_content |-> Placeholder,
        stats |-> [total_intents |-> 0, total_examples |-> 0,
                   total_entities_used |-> 0, avg_examples_per_intent |-> 0,
                   total_annotations |-> 0],
        validation_errors |-> <<>>,
        validation_warnings |-> <<"no_annotations">>,
        is_valid |-> FALSE,
        can_export |-> FALSE]
  ELSE LET nlu_dict == convert_annotations_to_nlu_dict(annotation_list)
           yaml_content == convert_to_rasa_nlu_yaml(nlu_dict)
           format == validate_nlu_yaml(yaml_content)
           data == validate_annotations_export(nlu_dict)
           all_errors == format.errors \o data.errors
           all_warnings == format.warnings \o data.warnings
           stats_dict == get_nlu_export_stats(nlu_dict)
       IN [yaml_content |-> yaml_content,
           stats |-> [total_intents |-> stats_dict.total_intents,
                      total_examples |-> stats_dict.total_examples,
                      total_entities_used |-> stats_dict.total_entities_used,
                      avg_examples_per_intent |->
                        stats_dict.avg_examples_per_intent,
                      total_annotations |-> Len(annotation_list)],
           validation_errors |-> all_errors,
           validation_warnings |-> all_warnings,
           is_valid |-> format.is_valid,
           can_export |-> Len(all_errors) = 0]

\* variant: drift warnings refuse the download like structural errors
download_body_strict(annotation_list) ==
  IF annotation_list = <<>> THEN [code |-> 404, content |-> <<>>]
  ELSE LET nlu_dict == convert_annotations_to_nlu_dict(annotation_list)
           yaml_content == convert_to_rasa_nlu_yaml(nlu_dict)
           format == validate_nlu_yaml(yaml_content)
           data == validate_annotations_export(nlu_dict)
       IN IF ~format.is_valid \/ format.errors # <<>> \/ data.warnings # <<>>
          THEN [code |-> 400, content |-> <<>>]
          ELSE [code |-> 200, content |-> yaml_content]

\* the body of download_nlu_export after the query: status code and content
download_body(annotation_list) ==
  IF annotation_list = <<>> THEN [code |-> 404, content |-> <<>>]
  ELSE LET nlu_dict == convert_annotations_to_nlu_dict(annotation_list)
           yaml_content == convert_to_rasa_nlu_yaml(nlu_dict)
           format == validate_nlu_yaml(yaml_content)
       IN IF ~format.is_valid \/ format.errors # <<>>
          THEN [code |-> 400, content |-> <<>>]
          ELSE [code |-> 200, content |-> yaml_content]

ExportReply(op, user, code, filters) ==
  [op |-> op, code |-> code, user |-> user, id |-> NullId,
   filters |-> filters]

\* the rows after an export handler has run: the handlers only query (no
\* db.add, no assignment to a loaded row, no db.commit)
export_writes_mark_trained(table, annotation_list) ==
  [id \in DOMAIN table |->
     IF \E i \in DOMAIN annotation_list : annotation_list[i] = table[id]
     THEN [table[id] EXCEPT !.status = "trained"] ELSE table[id]]

export_writes(table, annotation_list) ==
  table

\* preview_nlu_export: the responses the handler may give (one per order
\* in which the query may return the rows), each with the table it leaves
preview_nlu_export(table, user, filters) ==
  IF ~_check_export_permission(user)
  THEN {[reply |-> ExportReply("preview", user, 403, filters),
         table |-> table]}
  ELSE IF BadDate \in {filters.from_date, filters.to_date}
  THEN {[reply |-> ExportReply("preview", user, 400, filters),
         table |-> table]}
  ELSE {[reply |-> ExportReply("preview", user, 200, filters)
                     @@ preview_body(annotation_list),
         table |-> export_writes(table, annotation_list)] :
          annotation_list \in
            get_approved_annotations(table, ParseDate(filters.from_date),
                                     ParseDate(filters.to_date),
                                     filters.intent_filter)}

\* download_nlu_export: likewise
download_nlu_export(table, user, filters) ==
  IF ~_check_export_permission(user)
  THEN {[reply |-> ExportReply("download", user, 403, filters),
         table |-> table]}
  ELSE IF BadDate \in {filters.from_date, filters.to_date}
  THEN {[reply |-> ExportReply("download", user, 400, filters),
         table |-> table]}
  ELSE {[reply |-> ExportReply("download", user,
                               download_body(annotation_list).code, filters)
                     @@ [content |-> download_body(annotation_list).content],
         table |-> export_writes(table, annotation_list)] :
          annotation_list \in
            get_approved_annotations(table, ParseDate(filters.from_date),
                                     ParseDate(filters.to_date),
                                     filters.intent_filter)}

\* GET /api/v1/export/nlu/preview
PreviewNluExport ==
  \E user \in Users, filters \in ExportFilters :
    /\ Idle
    /\ \E served \in preview_nlu_export(annotations, user, filters) :
         /\ response' = served.reply
         /\ annotations' = served.table
    /\ UNCHANGED <<next_id, activity_logs, now, sessions>>

\* GET /api/v1/export/nlu/download
DownloadNluExport ==
  \E user \in Users, filters \in ExportFilters :
    /\ Idle
    /\ \E served \in download_nlu_export(annotations, user, filters) :
         /\ response' = served.reply
         /\ annotations' = served.table
    /\ UNCHANGED <<next_id, activity_logs, now, sessions>>

\* ------------------------------------------------ routers/annotations.py
Reply(op, user, id, code) == [op |-> op, code |-> code, user |-> user, id |-> id]

Commit(result) ==
  /\ annotations' = result.db.annotations
  /\ activity_logs' = result.db.activity_logs

\* POST /api/v1/annotations
CreateAnnotation ==
  \E user \in Users, annotation \in AnnotationCreate :
    /\ Idle
    /\ IF ~_check_role_permission(user, "qa_analyst")
       THEN /\ response' = Reply("create", user, NullId, 403)
            /\ UNCHANGED <<annotations, activity_logs, next_id>>
       ELSE LET result == create_annotation(Db(annotations, activity_logs),
                                            next_id, annotation, user)
            IN /\ next_id <= MaxAnnotations
               /\ LogHasRoom(result)
               /\ Commit(result)
               /\ next_id' = next_id + 1
               /\ response' = Reply("create", user, next_id, result.code)
    /\ UNCHANGED <<now, sessions>>

\* PUT /api/v1/annotations/{annotation_id}
UpdateAnnotation ==
  \E user \in Users, annotation_id \in 1..MaxAnnotations,
     annotation_update \in AnnotationUpdate :
    /\ Idle
    /\ LET result == update_annotation(Db(annotations, activity_logs),
                                       annotation_id, annotation_update,
                                       user, UserRole(user))
       IN /\ LogHasRoom(result)
          /\ Commit(result)
          /\ response' = Reply("update", user, annotation_id, result.code)
    /\ UNCHANGED <<next_id, now, sessions>>

\* DELETE /api/v1/annotations/{annotation_id}
DeleteAnnotation ==
  \E user \in Users, annotation_id \in 1..MaxAnnotations :
    /\ Idle
    /\ LET result == delete_annotation(Db(annotations, activity_logs),
                                       annotation_id, user, UserRole(user))
       IN /\ LogHasRoom(result)
          /\ Commit(result)
          /\ response' = Reply("delete", user, annotation_id, result.code)
    /\ UNCHANGED <<next_id, now, sessions>>

\* datetime.utcnow(): the clock does not run backwards; two reads may
\* return the same instant
Tick(t) == t \in {now, now + 1} /\ t <= MaxTime

\* POST /api/v1/annotations/{annotation_id}/approve
ApproveAnnotation ==
  \E user \in Users, annotation_id \in 1..MaxAnnotations,
     approval \in AnnotationApprovalRequest, utcnow \in 0..MaxTime :
    /\ Idle
    /\ Tick(utcnow)
    /\ IF ~_check_role_permission(user, "qa_lead")
       THEN /\ response' = Reply("approve", user, annotation_id, 403)
            /\ UNCHANGED <<annotations, activity_logs, now>>
       ELSE IF ~ApprovalRequestValid(approval)
       THEN /\ response' = Reply("approve", user, annotation_id, 422)
            /\ UNCHANGED <<annotations, activity_logs, now>>
       ELSE LET result == approve_annotation(Db(annotations, activity_logs),
                                             annotation_id, approval, user,
                                             UserRole(user), utcnow)
            IN /\ LogHasRoom(result)
               /\ Commit(result)
               /\ now' = IF result.code = 200 THEN utcnow ELSE now
               /\ response' = Reply("approve", user, annotation_id,
                                    result.code)
    /\ UNCHANGED <<next_id, sessions>>

Next ==
  \/ CreateAnnotation
  \/ UpdateAnnotation
  \/ DeleteAnnotation
  \/ ApproveAnnotation
  \/ PreviewNluExport
  \/ DownloadNluExport
  \/ Respond

Spec == Init /\ [][Next]_vars

\* ------------------------------------- approve requests, step by step
\* Requests are served by concurrent workers, each with its own database
\* session (get_db).  An approve request reads the row with a plain SELECT
\* (_check_annotation_exists), checks and modifies the loaded object, and
\* writes it back at db.commit(); the database runs the statements of
\* concurrent sessions in any order (PostgreSQL, READ COMMITTED).

\* db.commit() of a modified row: the UPDATE ... WHERE id = :id carries the
\* columns whose value differs from the loaded one
flush(current, loaded, modified) ==
  [column \in DOMAIN current |->
     IF modified[column] # loaded[column]
     THEN modified[column] ELSE current[column]]

Done(code, id) == [pc |-> "done", code |-> code, id |-> id]

\* approve_annotation up to the assignments: role check, request
\* validation, SELECT, permission and status checks on the loaded row
ApproveLoad(s) ==
  \E user \in Users, annotation_id \in 1..MaxAnnotations,
     approval \in AnnotationApprovalRequest :
    /\ sessions[s].pc = "idle"
    /\ sessions' = [sessions EXCEPT ![s] =
         IF ~_check_role_permission(user, "qa_lead")
         THEN Done(403, annotation_id)
         ELSE IF ~ApprovalRequestValid(approval)
         THEN Done(422, annotation_id)
         ELSE IF ~_check_annotation_exists(annotations, annotation_id)
         THEN Done(404, annotation_id)
         ELSE LET annotation == annotations[annotation_id]
                  denied == _check_user_permissions(annotation, user,
                                                    UserRole(user), "approve")
              IN IF denied # 0 THEN Done(denied, annotation_id)
                 ELSE IF ~approve_status_guard(annotation)
                 THEN Done(400, annotation_id)
                 ELSE [pc |-> "loaded", user |-> user, id |-> annotation_id,
                       approval |-> approval, loaded |-> annotation]]
    /\ UNCHANGED <<annotations, next_id, activity_logs, now, response>>

\* approve_annotation from the assignments on: db.commit(), log_activity
ApproveCommit(s) ==
  \E utcnow \in 0..MaxTime :
    /\ sessions[s].pc = "loaded"
    /\ Tick(utcnow)
    /\ activity_logs < MaxLog
    /\ LET session == sessions[s]
           modified == apply_approval(session.loaded, session.approval,
                                      session.user, utcnow)
       IN IF ~_check_annotation_exists(annotations, session.id)
          THEN \* the UPDATE matches no row: StaleDataError, answered 500
               /\ sessions' = [sessions EXCEPT ![s] = Done(500, session.id)]
               /\ UNCHANGED <<annotations, activity_logs, now>>
          ELSE /\ annotations' =
                    [annotations EXCEPT ![session.id] =
                       flush(@, session.loaded, modified)]
               /\ activity_logs' = log_activity(activity_logs, session.user,
                                     IF session.approval.approved
                                     THEN "annotation_approved"
                                     ELSE "annotation_rejected", session.id)
               /\ now' = utcnow
               /\ sessions' = [sessions EXCEPT ![s] =
                    Done(200, session.id)]
    /\ UNCHANGED <<next_id, response>>

NextConc ==
  \/ CreateAnnotation
  \/ Respond
  \/ \E s \in 1..MaxSessions : ApproveLoad(s)
  \/ \E s \in 1..MaxSessions : ApproveCommit(s)

SpecConc == Init /\ [][NextConc]_vars

\* ------------------------- update and delete requests, step by step
\* update_annotation and delete_annotation read the row with the same plain
\* SELECT, check the loaded object and write at db.commit(), like
\* approve_annotation; the steps of concurrent sessions interleave.
DoneEdit(op, user, id, code) ==
  [pc |-> "done", op |-> op, user |-> user, id |-> id, code |-> code]

\* update_annotation up to the setattr loop
UpdateLoad(s) ==
  \E user \in Users, annotation_id \in 1..MaxAnnotations,
     annotation_update \in AnnotationUpdate :
    /\ sessions[s].pc = "idle"
    /\ sessions' = [sessions EXCEPT ![s] =
         IF ~_check_annotation_exists(annotations, annotation_id)
         THEN DoneEdit("update", user, annotation_id, 404)
         ELSE LET annotation == annotations[annotation_id]
                  denied == _check_user_permissions(annotation, user,
                                                    UserRole(user), "update")
              IN IF denied # 0
                 THEN DoneEdit("update", user, annotation_id, denied)
                 ELSE [pc |-> "update_loaded", user |-> user,
                       id |-> annotation_id, update |-> annotation_update,
                       loaded |-> annotation]]
    /\ UNCHANGED <<annotations, next_id, activity_logs, now, response>>

\* update_annotation from the setattr loop on: db.commit(), db.refresh(),
\* log_activity.  When the row is gone, the UPDATE matches no row or the
\* refresh finds none: the exception is answered 500.
UpdateCommit(s) ==
  /\ sessions[s].pc = "update_loaded"
  /\ activity_logs < MaxLog
  /\ LET session == sessions[s]
         modified == apply_update(session.loaded, session.update)
     IN IF ~_check_annotation_exists(annotations, session.id)
        THEN /\ sessions' = [sessions EXCEPT ![s] =
                  DoneEdit("update", session.user, session.id, 500)]
             /\ UNCHANGED <<annotations, activity_logs>>
        ELSE /\ annotations' =
                  [annotations EXCEPT ![session.id] =
                     flush(@, session.loaded, modified)]
             /\ activity_logs' = log_activity(activity_logs, session.user,
                                              "annotation_updated", session.id)
             /\ sessions' = [sessions EXCEPT ![s] =
                  DoneEdit("update", session.user, session.id, 200)]
  /\ UNCHANGED <<next_id, now, response>>

\* delete_annotation up to db.delete()
DeleteLoad(s) ==
  \E user \in Users, annotation_id \in 1..MaxAnnotations :
    /\ sessions[s].pc = "idle"
    /\ sessions' = [sessions EXCEPT ![s] =
         IF ~_check_annotation_exists(annotations, annotation_id)
         THEN DoneEdit("delete", user, annotation_id, 404)
         ELSE LET annotation == annotations[annotation_id]
                  denied == _check_user_permissions(annotation, user,
                                                    UserRole(user), "delete")
              IN IF denied # 0
                 THEN DoneEdit("delete", user, annotation_id, denied)
                 ELSE [pc |-> "delete_loaded", user |-> user,
                       id |-> annotation_id, loaded |-> annotation]]
    /\ UNCHANGED <<annotations, next_id, activity_logs, now, response>>

\* delete_annotation from db.delete() on: db.commit(), log_activity.  A
\* DELETE that matches no row is a warning, not an exception.
DeleteCommit(s) ==
  /\ sessions[s].pc = "delete_loaded"
  /\ activity_logs < MaxLog
  /\ LET session == sessions[s]
     IN /\ annotations' = [i \in DOMAIN annotations \ {session.id} |->
                             annotations[i]]
        /\ activity_logs' = log_activity(activity_logs, session.user,
                                         "annotation_deleted", session.id)
        /\ sessions' = [sessions EXCEPT ![s] =
             DoneEdit("delete", session.user, session.id, 204)]
  /\ UNCHANGED <<next_id, now, response>>

\* the store the racing requests meet: one pending annotation, as
\* create_annotation left it for a qa_analyst
InitRace ==
  \E annotation \in AnnotationCreate :
    LET result == create_annotation(Db(<<>>, 0), 1, annotation, 3)
    IN /\ annotations = result.db.annotations
       /\ next_id = 2
       /\ activity_logs = result.db.activity_logs
       /\ now = 0
       /\ response = NoResponse
       /\ sessions = [s \in 1..MaxSessions |-> IdleSession]

NextRace ==
  \/ \E s \in 1..MaxSessions : ApproveLoad(s)
  \/ \E s \in 1..MaxSessions : ApproveCommit(s)
  \/ \E s \in 1..MaxSessions : UpdateLoad(s)
  \/ \E s \in 1..MaxSessions : UpdateCommit(s)
  \/ \E s \in 1..MaxSessions : DeleteLoad(s)
  \/ \E s \in 1..MaxSessions : DeleteCommit(s)

SpecRace == InitRace /\ [][NextRace]_vars

\* ------------------------------------------- export requests on a store
\* The export handlers served by concurrent workers against one store.  A
\* handler runs a single SELECT, so a request is one step of its session.
\* The store is any table that create, update and approve requests leave.

\* the row create_annotation stores for a request body
created_row(annotation, user_id) ==
  create_annotation(Db(<<>>, 0), 1, annotation, user_id).db.annotations[1]

CreatedRows == {created_row(annotation, 3) : annotation \in AnnotationCreate}

\* rows as created, and rows whose intent was then corrected to a label
EditedRows ==
  CreatedRows
    \cup {apply_update(row, update_data) :
            row \in CreatedRows,
            update_data \in {u \in AnnotationUpdate :
                               /\ "corrected_intent" \in u.fields
                               /\ ~Falsy(u.corrected_intent)}}

ReviewedRows ==
  {apply_approval(row, approval, 4, utcnow) :
     row \in EditedRows,
     approval \in {a \in AnnotationApprovalRequest :
                     ApprovalRequestValid(a) /\ a.rejection_reason # NULL},
     utcnow \in 0..MaxTime}

StoredRows == EditedRows \cup ReviewedRows

StoredTables == UNION {[1..n -> StoredRows] : n \in 0..MaxRows}

Reviewed(table) == {id \in DOMAIN table : table[id].status # "pending"}

RECURSIVE MaxOf(_)
MaxOf(numbers) ==
  IF numbers = {} THEN 0
  ELSE LET n == CHOOSE m \in numbers : TRUE
       IN Max(n, MaxOf(numbers \ {n}))

\* the clients of the export requests: one below the required role, one
\* with it
ExportClients == {user \in Users : UserRole(user) \in {"qa_analyst", "qa_lead"}}

InitExport ==
  \E table \in StoredTables :
    /\ annotations = table
    /\ next_id = Len(table) + 1
    /\ activity_logs = Len(table) + Cardinality(Reviewed(table))
    /\ now = MaxOf({table[id].approved_at : id \in Reviewed(table)})
    /\ response = NoResponse
    /\ sessions = [s \in 1..MaxSessions |-> IdleSession]

\* a session serves GET /api/v1/export/nlu/preview
PreviewRequest(s) ==
  \E user \in ExportClients, filters \in ExportFilters :
    /\ sessions[s].pc = "idle"
    /\ \E served \in preview_nlu_export(annotations, user, filters) :
         /\ sessions' = [sessions EXCEPT ![s] =
                           [pc |-> "done"] @@ served.reply]
         /\ annotations' = served.table
    /\ UNCHANGED <<next_id, activity_logs, now, response>>

\* a session serves GET /api/v1/export/nlu/download
DownloadRequest(s) ==
  \E user \in ExportClients, filters \in ExportFilters :
    /\ sessions[s].pc = "idle"
    /\ \E served \in download_nlu_export(annotations, user, filters) :
         /\ sessions' = [sessions EXCEPT ![s] =
                           [pc |-> "done"] @@ served.reply]
         /\ annotations' = served.table
    /\ UNCHANGED <<next_id, activity_logs, now, response>>

NextExport ==
  \/ \E s \in 1..MaxSessions : PreviewRequest(s)
  \/ \E s \in 1..MaxSessions : DownloadRequest(s)

SpecExport == InitExport /\ [][NextExport]_vars

\* ======================================================== lifecycle claims
Exists(id) == id \in DOMAIN annotations
Reviewer(user) == UserRole(user) \in {"qa_lead", "admin"}
Failed(code) == code >= 400

\* C1: approve_annotation (approve or reject) on an annotation whose status
\* is not pending fails with an error for every actor, qa_lead and admin
\* included, and leaves the row (status, approver, approval timestamp,
\* rejection reason) and the activity log unchanged.
C1_ApproveNonPendingFails ==
  [][(/\ response'.op = "approve"
      /\ Exists(response'.id)
      /\ annotations[response'.id].status # "pending")
     => (/\ Failed(response'.code)
         /\ annotations' = annotations
         /\ activity_logs' = activity_logs)]_vars

\* an admin was refused (400) the review of an approved annotation
C1_Witness ==
  /\ response.op = "approve"
  /\ response.code = 400
  /\ UserRole(response.user) = "admin"
  /\ Exists(response.id)
  /\ annotations[response.id].status = "approved"

\* C3 (as claimed): update_annotation and delete_annotation on an approved
\* annotation fail for every actor and leave the table unchanged.
C3_ApprovedImmutable ==
  [][(/\ response'.op \in {"update", "delete"}
      /\ Exists(response'.id)
      /\ annotations[response'.id].status = "approved")
     => (/\ Failed(response'.code)
         /\ annotations' = annotations)]_vars

\* C4 (as claimed): delete_annotation succeeds only on a pending annotation.
C4_DeleteOnlyPending ==
  [][(/\ response'.op = "delete"
      /\ ~Failed(response'.code))
     => (/\ Exists(response'.id)
         /\ annotations[response'.id].status = "pending")]_vars

C6_OnlyCreatorOrAdminEdits ==
  [][(/\ response'.op \in {"update", "delete"}
      /\ Exists(response'.id))
     => LET user == response'.user
            owner == annotations[response'.id].annotated_by = user
        IN /\ ~Failed(response'.code) => (owner \/ UserRole(user) = "admin")
           /\ (~owner /\ UserRole(user) # "admin")
                => (/\ response'.code = 403
                    /\ annotations' = annotations
                    /\ activity_logs' = activity_logs)]_vars

\* a qa_lead who is not the creator was refused the deletion of a rejected
\* annotation
C6_Witness ==
  /\ response.op = "delete"
  /\ response.code = 403
  /\ UserRole(response.user) = "qa_lead"
  /\ Exists(response.id)
  /\ annotations[response.id].annotated_by # response.user
  /\ annotations[response.id].status = "rejected"

\* C7 (as claimed): a rejection is stored only with a non-empty
\* rejection_reason: every rejected annotation has a non-empty
\* rejection_reason and every approved annotation has rejection_reason
\* None.  Checked among interleaved approve requests.
C7_RejectionReason ==
  \A id \in DOMAIN annotations :
    /\ annotations[id].status = "rejected"
         => (/\ annotations[id].rejection_reason # NULL
             /\ annotations[id].rejection_reason # <<>>)
    /\ annotations[id].status = "approved"
         => annotations[id].rejection_reason = NULL

\* C8 (as claimed): after a successful update_annotation of a pending or
\* rejected annotation its status is pending.
C8_EditBackToPending ==
  [][(/\ response'.op = "update"
      /\ ~Failed(response'.code)
      /\ Exists(response'.id)
      /\ annotations[response'.id].status \in {"pending", "rejected"})
     => annotations'[response'.id].status = "pending"]_vars

\* C9 (as claimed): once an annotation is approved it is never pending or
\* rejected again: while the row exists its status stays approved, and the
\* id of a deleted row is not given to a new one.  Checked among
\* interleaved approve requests.
C9_ApprovedStaysApproved ==
  [][/\ \A id \in DOMAIN annotations :
          (annotations[id].status = "approved" /\ id \in DOMAIN annotations')
          => annotations'[id].status = "approved"
     /\ \A id \in DOMAIN annotations' \ DOMAIN annotations : id = next_id
     /\ next_id' >= next_id
     /\ \A id \in DOMAIN annotations : id < next_id]_vars

\* the example lines of a document, as [intent, example]: the lines of the
\* examples block of each item of its nlu list, without the leading "- "
ExampleLines(doc) ==
  LET nlu == yaml_safe_load(doc).nlu
  IN UNION {{[intent |-> nlu[i].intent, example |-> Slice(line, 2, Len(line))] :
              line \in {l \in {SplitLines(nlu[i].examples)[k] :
                                 k \in DOMAIN SplitLines(nlu[i].examples)} :
                          l # <<>>}} :
            i \in DOMAIN nlu}

\* the document of an export response
Document(reply) ==
  IF reply.op = "preview" THEN reply.yaml_content ELSE reply.content

Exported(reply) == reply.op \in {"preview", "download"} /\ reply.code = 200

\* C10: every example line of the document a preview or download request
\* returns comes from an annotation whose status is approved at the time of
\* the request: some approved row has the line's intent as corrected_intent
\* and renders (_format_entity_in_text) to the line's example.
C10_ExportOnlyApproved ==
  Exported(response) =>
    \A line \in ExampleLines(Document(response)) :
      \E id \in DOMAIN annotations :
        /\ annotations[id].status = "approved"
        /\ annotations[id].corrected_intent = line.intent
        /\ _format_entity_in_text(annotations[id].message_text,
                                  annotations[id].corrected_entities)
             = line.example

\* a download returned example lines while the table held an annotation
\* that is not approved, and none of the lines renders that annotation
C10_Witness ==
  /\ response.op = "download"
  /\ response.code = 200
  /\ ExampleLines(response.content) # {}
  /\ \E id \in DOMAIN annotations :
       /\ annotations[id].status \in {"pending", "rejected"}
       /\ ~Falsy(annotations[id].corrected_intent)
       /\ \A line \in ExampleLines(response.content) :
            line.example #
              _format_entity_in_text(annotations[id].message_text,
                                     annotations[id].corrected_entities)

\* C2 (as claimed): of the approve/reject requests served concurrently on
\* one pending annotation exactly one succeeds: no two sessions end with
\* 200 on the same annotation.
C2_ExactlyOneSucceeds ==
  \A s1, s2 \in 1..MaxSessions :
    (/\ s1 # s2
     /\ sessions[s1].pc = "done"
     /\ sessions[s2].pc = "done"
     /\ sessions[s1].id = sessions[s2].id)
    => ~(sessions[s1].code = 200 /\ sessions[s2].code = 200)

\* =========================================================== export claims
DoneExport(s, op) ==
  /\ sessions[s].pc = "done"
  /\ sessions[s].op = op
  /\ sessions[s].code = 200

\* C11 (as claimed): for the same store and the same filters, the document
\* a successful download returns equals the yaml_content of preview.
C11_DownloadEqualsPreview ==
  \A s1, s2 \in 1..MaxSessions :
    (/\ DoneExport(s1, "preview")
     /\ DoneExport(s2, "download")
     /\ sessions[s1].filters = sessions[s2].filters)
    => sessions[s2].content = sessions[s1].yaml_content

\* a step in which an export request is served
ExportServed ==
  \/ response'.op \in {"preview", "download"}
  \/ \E s \in 1..MaxSessions :
       /\ sessions[s].pc = "idle"
       /\ sessions'[s].pc = "done"
       /\ "op" \in DOMAIN sessions'[s]
       /\ sessions'[s].op \in {"preview", "download"}

\* C12: preview and download write nothing: a step that serves either,
\* with success or failure, alone or beside other export requests, leaves
\* every row, the set of rows, the id sequence and the activity log as
\* they were.
C12_ExportWritesNothing ==
  [][ExportServed => (/\ annotations' = annotations
                      /\ next_id' = next_id
                      /\ activity_logs' = activity_logs)]_vars

\* a download and a preview were both served with 200 on a store that
\* holds rows
C12_Witness ==
  /\ annotations # <<>>
  /\ \E s1, s2 \in 1..MaxSessions :
       DoneExport(s1, "download") /\ DoneExport(s2, "preview")

\* the request was let in: role sufficient and dates parsed
Admitted(reply) ==
  /\ reply.code # 403
  /\ BadDate \notin {reply.filters.from_date, reply.filters.to_date}

\* the annotation is approved and passes the filters of the request
Matches(annotation, filters) ==
  /\ annotation.status = "approved"
  /\ filters.from_date # NoDate
       => annotation.approved_at >= strptime(filters.from_date)
  /\ filters.to_date # NoDate
       => annotation.approved_at < strptime(filters.to_date)
  /\ ~Falsy(filters.intent_filter)
       => annotation.corrected_intent = filters.intent_filter

Matching(filters) ==
  {id \in DOMAIN annotations : Matches(annotations[id], filters)}

ServedExport(s, op) ==
  /\ sessions[s].pc = "done"
  /\ sessions[s].op = op
  /\ Admitted(sessions[s])

\* C13: when no approved annotation matches the filters, preview answers
\* 200 with the placeholder document, can_export false, no error, the one
\* warning that no annotations are available and all statistics zero, and
\* download answers 404.
C13_EmptyExport ==
  \A s \in 1..MaxSessions :
    /\ (ServedExport(s, "preview") /\ Matching(sessions[s].filters) = {})
         => (/\ sessions[s].code = 200
             /\ sessions[s].yaml_content = Placeholder
             /\ sessions[s].can_export = FALSE
             /\ sessions[s].validation_errors = <<>>
             /\ sessions[s].validation_warnings = <<"no_annotations">>
             /\ sessions[s].stats =
                  [total_intents |-> 0, total_examples |-> 0,
                   total_entities_used |-> 0, avg_examples_per_intent |-> 0,
                   total_annotations |-> 0])
    /\ (ServedExport(s, "download") /\ Matching(sessions[s].filters) = {})
         => sessions[s].code = 404

\* on a store whose only approved row has another intent than the filter
\* asks for, preview returned the placeholder and download 404
C13_Witness ==
  /\ \E id \in DOMAIN annotations : annotations[id].status = "approved"
  /\ \E s1, s2 \in 1..MaxSessions :
       /\ ServedExport(s1, "preview")
       /\ ServedExport(s2, "download")
       /\ sessions[s1].filters = sessions[s2].filters
       /\ Matching(sessions[s1].filters) = {}
       /\ sessions[s1].yaml_content = Placeholder
       /\ sessions[s2].code = 404

\* the entity types of a stored entity list
TypesOf(entities) == {entities[i].entity : i \in DOMAIN entities}

\* every matching row carries the intent label and only entity types of
\* the reference vocabulary
OnlyDriftIs(filters, intent) ==
  \A id \in Matching(filters) :
    /\ annotations[id].corrected_intent = intent
    /\ TypesOf(annotations[id].corrected_entities) \subseteq existing_entities

\* C14: when at least one approved annotation matches, preview reports
\* can_export exactly when validation_errors is empty, whatever the
\* warnings; and when the document holds one intent label that is not in
\* the reference vocabulary and nothing else is amiss, there is no error,
\* exactly one warning (for that label) and can_export is true.
C14_CanExportIffNoErrors ==
  \A s \in 1..MaxSessions :
    (ServedExport(s, "preview") /\ Matching(sessions[s].filters) # {})
    => /\ sessions[s].code = 200
       /\ sessions[s].can_export = (sessions[s].validation_errors = <<>>)
       /\ \A intent \in Intents \ existing_intents :
            OnlyDriftIs(sessions[s].filters, intent)
            => (/\ sessions[s].validation_errors = <<>>
                /\ sessions[s].validation_warnings = <<IntentWarning(intent)>>
                /\ sessions[s].can_export)

\* a preview of a store whose approved rows all carry the unknown label
\* "b" came back with one warning and can_export true
C14_Witness ==
  \E s \in 1..MaxSessions :
    /\ ServedExport(s, "preview")
    /\ Matching(sessions[s].filters) # {}
    /\ OnlyDriftIs(sessions[s].filters, <<"b">>)
    /\ sessions[s].validation_warnings = <<IntentWarning(<<"b">>)>>
    /\ sessions[s].can_export

\* C15: download answers 404 exactly when no approved annotation matches,
\* 400 exactly when some match and the rendered document has structural
\* errors, and 200 otherwise; warnings never refuse it: it answers 200
\* exactly when preview of the same store and filters reports can_export.
C15_DownloadOutcome ==
  \A s2 \in 1..MaxSessions :
    ServedExport(s2, "download")
    => /\ sessions[s2].code \in {200, 400, 404}
       /\ (sessions[s2].code = 404) = (Matching(sessions[s2].filters) = {})
       /\ \A s1 \in 1..MaxSessions :
            (/\ ServedExport(s1, "preview")
             /\ sessions[s1].filters = sessions[s2].filters)
            => /\ (sessions[s2].code = 200) = sessions[s1].can_export
               /\ (sessions[s2].code = 400)
                    = (/\ Matching(sessions[s2].filters) # {}
                       /\ sessions[s1].validation_errors # <<>>)

\* a download answered 200 where preview of the same store and filters
\* shows warnings and can_export
C15_Witness ==
  \E s1, s2 \in 1..MaxSessions :
    /\ ServedExport(s1, "preview")
    /\ DoneExport(s2, "download")
    /\ sessions[s1].filters = sessions[s2].filters
    /\ sessions[s1].validation_warnings # <<>>
    /\ sessions[s1].can_export

\* the intent labels of the blocks of a document
BlockIntents(doc) ==
  LET nlu == yaml_safe_load(doc).nlu
  IN {nlu[i].intent : i \in DOMAIN nlu}

\* the rendered example of a stored row
Rendered(annotation) ==
  _format_entity_in_text(annotation.message_text,
                         annotation.corrected_entities)

\* C17: an approved annotation with a null or empty corrected_intent adds
\* no intent block and no example to the document (the example lines are
\* those of the matching rows that have an intent), and total_annotations
\* is the number of matching approved annotations, skipped and duplicate
\* ones included.
C17_NullIntentSkippedButCounted ==
  \A s \in 1..MaxSessions :
    (ServedExport(s, "preview") /\ sessions[s].code = 200)
    => LET matching == Matching(sessions[s].filters)
           labelled == {id \in matching :
                          ~Falsy(annotations[id].corrected_intent)}
       IN /\ ExampleLines(sessions[s].yaml_content) =
               {[intent |-> annotations[id].corrected_intent,
                 example |-> Rendered(annotations[id])] : id \in labelled}
          /\ BlockIntents(sessions[s].yaml_content) =
               {annotations[id].corrected_intent : id \in labelled}
          /\ sessions[s].stats.total_intents =
               Cardinality({annotations[id].corrected_intent :
                              id \in labelled})
          /\ sessions[s].stats.total_annotations = Cardinality(matching)

\* a preview of two matching rows, one of them without intent, counted
\* both and rendered one example
C17_Witness ==
  \E s \in 1..MaxSessions :
    /\ ServedExport(s, "preview")
    /\ sessions[s].code = 200
    /\ \E id \in Matching(sessions[s].filters) :
         Falsy(annotations[id].corrected_intent)
    /\ sessions[s].stats.total_annotations = 2
    /\ sessions[s].stats.total_examples = 1

\* ------------------------------------------- annotation_helpers.py
\* An entity dict is a function on the keys it holds. None as the value of
\* "entity" or "value" is NULL; None as the value of "start" or "end" is
\* NullOffset.
NullOffset == -9

\* dict.get(key, default)
get(ent, key, default) ==
  IF key \in DOMAIN ent THEN ent[key] ELSE default

\* the error messages, by what they report
EntityError(kind, idx) == [kind |-> kind, idx |-> idx + 1]
OverlapError(current, next_ent) ==
  [kind |-> "overlap", current |-> current, next_ent |-> next_ent]

\* one pass of the loop "for idx, ent in enumerate(entities)": the errors
\* it appends
entity_errors(text, idx, ent) ==
  LET entity_type == get(ent, "entity", NULL)
      value == get(ent, "value", NULL)
      start == get(ent, "start", NullOffset)
      end == get(ent, "end", NullOffset)
      text_length == Len(text)
      fields ==
        (IF Falsy(entity_type) THEN <<EntityError("entity", idx)>> ELSE <<>>)
        \o (IF value = NULL \/ value = <<>>
            THEN <<EntityError("value", idx)>> ELSE <<>>)
  IN IF start = NullOffset THEN fields \o <<EntityError("start", idx)>>
     ELSE IF end = NullOffset THEN fields \o <<EntityError("end", idx)>>
     ELSE fields
       \o (IF start < 0 THEN <<EntityError("negative", idx)>> ELSE <<>>)
       \o (IF end > text_length THEN <<EntityError("past", idx)>> ELSE <<>>)
       \o (IF start >= end THEN <<EntityError("order", idx)>>
           ELSE IF 0 <= start /\ end <= text_length
                     /\ Slice(text, start, end) # value
           THEN <<EntityError("mismatch", idx)>>
           ELSE <<>>)

\* the errors of the whole loop, in order
RECURSIVE loop_errors(_, _, _)
loop_errors(text, entities, idx) ==
  IF idx >= Len(entities) THEN <<>>
  ELSE entity_errors(text, idx, entities[idx + 1])
         \o loop_errors(text, entities, idx + 1)

\* sorted(entities, key=lambda e: e.get("start", 0)): a stable sort
RECURSIVE sorted_by_start(_)
sorted_by_start(entities) ==
  IF entities = <<>> THEN <<>>
  ELSE LET first == Head(entities)
           rest == sorted_by_start(Tail(entities))
           key(ent) == get(ent, "start", 0)
           before == SelectSeq(rest, LAMBDA ent : key(ent) < key(first))
           after == SelectSeq(rest, LAMBDA ent : ~(key(ent) < key(first)))
       IN before \o <<first>> \o after

\* the comparisons of None with a number that raise TypeError: the sort
\* of two or more entities when the key of one is None, and
\* current_end > next_start when current_end is None
RaisesTypeError(entities) ==
  /\ Len(entities) >= 2
  /\ \/ \E i \in DOMAIN entities :
          get(entities[i], "start", 0) = NullOffset
     \/ \E i \in 1..(Len(entities) - 1) :
          get(sorted_by_start(entities)[i], "end", 0) = NullOffset

\* the overlap check that reports nothing
overlap_errors_none(sorted_entities) == <<>>

\* the overlap check that stops after the first pair
overlap_errors_first_pair(sorted_entities) ==
  IF Len(sorted_entities) >= 2
       /\ get(sorted_entities[1], "end", 0)
            > get(sorted_entities[2], "start", 0)
  THEN <<OverlapError(sorted_entities[1], sorted_entities[2])>>
  ELSE <<>>

\* the loop over adjacent pairs of the sorted entities: the errors it
\* appends
overlap_errors(sorted_entities) ==
  LET pairs == [i \in 1..(Len(sorted_entities) - 1) |->
                  [current |-> sorted_entities[i],
                   next_ent |-> sorted_entities[i + 1]]]
      overlapping ==
        SelectSeq(pairs, LAMBDA pair :
                    get(pair.current, "end", 0)
                      > get(pair.next_ent, "start", 0))
  IN [i \in DOMAIN overlapping |->
        OverlapError(overlapping[i].current, overlapping[i].next_ent)]

\* validate_entity_spans: (is_valid, errors), or the exception raised
validate_entity_spans(text, entities) ==
  IF text = <<>>
  THEN [raised |-> "none", is_valid |-> FALSE,
        errors |-> <<[kind |-> "empty_text"]>>]
  ELSE IF entities = <<>>
  THEN [raised |-> "none", is_valid |-> TRUE, errors |-> <<>>]
  ELSE IF RaisesTypeError(entities) THEN [raised |-> "TypeError"]
  ELSE LET errors == loop_errors(text, entities, 0)
                       \o overlap_errors(sorted_by_start(entities))
       IN [raised |-> "none", is_valid |-> Len(errors) = 0,
           errors |-> errors]

\* ================================================== calls of the helpers
\* The helpers of export_service.py called on their own, as the unit tests
\* call them: a call is drawn with its arguments, one step applies the
\* function and keeps arguments and result side by side.
MaxList == 4
MaxEntities == 2

\* all sequences over S of length 0..n
SeqsUpTo(S, n) == UNION {[1..k -> S] : k \in 0..n}

\* annotations as convert_annotations_to_nlu_dict reads them: the same
\* text under two intents, in two letter cases, with and without markup,
\* and rows whose corrected_intent is None or ''
ConvertExamples ==
  {[message_text |-> <<"h", "i">>, corrected_entities |-> <<>>],
   [message_text |-> <<"H", "i">>, corrected_entities |-> <<>>],
   [message_text |-> <<"y", "o">>, corrected_entities |-> <<>>],
   [message_text |-> <<"y", "o">>,
    corrected_entities |-> <<Ent(<<"p">>, <<"y", "o">>, 0, 1)>>]}

ConvertRows ==
  {[corrected_intent |-> intent] @@ example :
     intent \in Intents, example \in ConvertExamples}
  \cup {[message_text |-> <<"h", "i">>, corrected_intent |-> intent,
         corrected_entities |-> <<>>] : intent \in {NULL, <<>>}}

\* intent-to-examples mappings as convert_to_rasa_nlu_yaml reads them: the
\* keys in every insertion order, example lists in and out of sorted order
YamlIntents ==
  {<<"z", "e", "t", "a">>, <<"a", "l", "p", "h", "a">>, <<"m", "i", "d">>}

YamlExamples ==
  {<<<<"h", "i">>>>,
   <<<<"h", "i">>, <<"y", "o">>>>,
   <<<<"y", "o">>, <<"h", "i">>>>}

NluDicts ==
  {nlu_dict \in SeqsUpTo([intent : YamlIntents, examples : YamlExamples],
                         Cardinality(YamlIntents)) :
     \A i, j \in DOMAIN nlu_dict :
       nlu_dict[i].intent = nlu_dict[j].intent => i = j}

\* texts and entity lists as _format_entity_in_text reads them: every span
\* inside the text under every label, in every list order
RenderTexts == {<<>>, <<"h", "i">>, <<"h", "o", "l", "a">>}

SpansOf(text) ==
  {Ent(type, text, span[1], span[2]) :
     type \in EntityTypes,
     span \in {sp \in (0..Len(text)) \X (0..Len(text)) : sp[1] < sp[2]}}

ConvertCalls ==
  {[op |-> "call", fn |-> "convert_annotations_to_nlu_dict",
    annotation_list |-> list] : list \in SeqsUpTo(ConvertRows, MaxList)}

YamlCalls ==
  {[op |-> "call", fn |-> "convert_to_rasa_nlu_yaml",
    nlu_dict |-> nlu_dict] : nlu_dict \in NluDicts}

RenderCalls ==
  UNION {{[op |-> "call", fn |-> "_format_entity_in_text",
           text |-> text, entities |-> entities] :
            entities \in SeqsUpTo(SpansOf(text), MaxEntities)} :
         text \in RenderTexts}

\* a call of fn is waiting to be applied
Called(fn) == response.op = "call" /\ response.fn = fn

\* the call returns: arguments and result
Returned(call, result) ==
  [call EXCEPT !.op = "return"] @@ [result |-> result]

ConvertApply ==
  /\ Called("convert_annotations_to_nlu_dict")
  /\ response' =
       Returned(response,
                convert_annotations_to_nlu_dict(response.annotation_list))
  /\ UNCHANGED <<annotations, next_id, activity_logs, now, sessions>>

YamlApply ==
  /\ Called("convert_to_rasa_nlu_yaml")
  /\ response' =
       Returned(response, convert_to_rasa_nlu_yaml(response.nlu_dict))
  /\ UNCHANGED <<annotations, next_id, activity_logs, now, sessions>>

RenderApply ==
  /\ Called("_format_entity_in_text")
  /\ response' =
       Returned(response,
                _format_entity_in_text(response.text, response.entities))
  /\ UNCHANGED <<annotations, next_id, activity_logs, now, sessions>>

\* entity dicts as validate_entity_spans reads them: a well-formed entity
\* on every span of the text, and the same with a key missing, None, empty
\* or out of range
SpanText == <<"h", "i">>

Without(ent, keys) == [key \in DOMAIN ent \ keys |-> ent[key]]

Defects(ent) ==
  {ent,
   [ent EXCEPT !.entity = <<>>], [ent EXCEPT !.entity = NULL],
   Without(ent, {"entity"}),
   [ent EXCEPT !.value = <<"x">>], [ent EXCEPT !.value = <<>>],
   [ent EXCEPT !.value = NULL], Without(ent, {"value"}),
   [ent EXCEPT !.start = -1], [ent EXCEPT !.start = ent.end],
   [ent EXCEPT !.start = NullOffset], Without(ent, {"start"}),
   [ent EXCEPT !.end = Len(SpanText) + 1],
   [ent EXCEPT !.end = NullOffset], Without(ent, {"end"}),
   Without(ent, {"start", "end"})}

SpanEntities ==
  UNION {Defects(Ent(<<"p">>, SpanText, span[1], span[2])) :
           span \in {<<0, 1>>, <<0, 2>>, <<1, 2>>}}

ValidateCalls ==
  {[op |-> "call", fn |-> "validate_entity_spans",
    text |-> text, entities |-> entities] :
     text \in {<<>>, SpanText},
     entities \in SeqsUpTo(SpanEntities, MaxEntities)}

\* entity lists for the overlap check: every span with start < end from
\* one before the text to one past it, in every list order
MaxOverlap == 3

OverlapText == <<"h", "o", "l", "a">>

OverlapEntities ==
  {[entity |-> <<"p">>,
    value |-> Slice(OverlapText, Max(span[1], 0), span[2]),
    start |-> span[1], end |-> span[2]] :
     span \in {sp \in (-1..(Len(OverlapText) + 1))
                        \X (-1..(Len(OverlapText) + 1)) : sp[1] < sp[2]}}

OverlapCalls ==
  {[op |-> "call", fn |-> "validate_entity_spans",
    text |-> OverlapText, entities |-> entities] :
     entities \in SeqsUpTo(OverlapEntities, MaxOverlap)}

ValidateApply ==
  /\ Called("validate_entity_spans")
  /\ response' =
       Returned(response,
                validate_entity_spans(response.text, response.entities))
  /\ UNCHANGED <<annotations, next_id, activity_logs, now, sessions>>

\* mappings as validate_annotations_export reads them: a known and an
\* unknown intent, examples without markup, with a known or an unknown
\* entity type, and with the same unknown type twice
MaxExamples == 2

DriftExamples ==
  {<<"h", "i">>,
   <<"[", "y", "]", "(", "p", ")", "o">>,
   <<"[", "y", "]", "(", "q", ")", "o">>,
   <<"[", "h", "]", "(", "p", ")", "[", "i", "]", "(", "p", ")">>,
   <<"[", "h", "]", "(", "p", ")", "[", "i", "]", "(", "q", ")">>}

DriftDicts ==
  {nlu_dict \in SeqsUpTo([intent : Intents,
                          examples : SeqsUpTo(DriftExamples, MaxExamples)],
                         Cardinality(Intents)) :
     \A i, j \in DOMAIN nlu_dict :
       nlu_dict[i].intent = nlu_dict[j].intent => i = j}

DriftCalls ==
  {[op |-> "call", fn |-> "validate_annotations_export",
    nlu_dict |-> nlu_dict] : nlu_dict \in DriftDicts}

DriftApply ==
  /\ Called("validate_annotations_export")
  /\ response' =
       Returned(response, validate_annotations_export(response.nlu_dict))
  /\ UNCHANGED <<annotations, next_id, activity_logs, now, sessions>>

InitPure ==
  /\ annotations = <<>>
  /\ next_id = 1
  /\ activity_logs = 0
  /\ now = 0
  /\ \/ response \in ConvertCalls
     \/ response \in YamlCalls
     \/ response \in RenderCalls
     \/ response \in ValidateCalls
     \/ response \in OverlapCalls
     \/ response \in DriftCalls
  /\ sessions = [s \in 1..MaxSessions |-> IdleSession]

NextPure ==
  \/ ConvertApply
  \/ YamlApply
  \/ RenderApply
  \/ ValidateApply
  \/ DriftApply

SpecPure == InitPure /\ [][NextPure]_vars

\* a call of fn has returned
ReturnedFrom(fn) == response.op = "return" /\ response.fn = fn

\* ------------------------------------------------------ helper claims
\* the rendered examples of an intent in an input list, by position
RenderedAt(annotation_list, intent) ==
  {i \in DOMAIN annotation_list :
     annotation_list[i].corrected_intent = intent}

\* the position at which a rendered example of an intent first occurs
FirstOccurrence(annotation_list, intent, example) ==
  CHOOSE i \in RenderedAt(annotation_list, intent) :
    /\ Rendered(annotation_list[i]) = example
    /\ \A j \in RenderedAt(annotation_list, intent) :
         Rendered(annotation_list[j]) = example => i <= j

\* C16: for every ordered input list, convert_annotations_to_nlu_dict
\* returns for each intent a list without equal strings, as long as the
\* number of distinct rendered examples of that intent in the input and in
\* the order of their first occurrence; examples that differ in markup or
\* in letter case only are distinct and all kept.
C16_DedupFirstOccurrence ==
  ReturnedFrom("convert_annotations_to_nlu_dict") =>
    LET list == response.annotation_list
        nlu_dict == response.result
    IN \A k \in DOMAIN nlu_dict :
         LET intent == nlu_dict[k].intent
             examples == nlu_dict[k].examples
             distinct == {Rendered(list[i]) : i \in RenderedAt(list, intent)}
         IN /\ \A i, j \in DOMAIN examples :
                 examples[i] = examples[j] => i = j
            /\ Len(examples) = Cardinality(distinct)
            /\ {examples[i] : i \in DOMAIN examples} = distinct
            /\ \A i, j \in DOMAIN examples :
                 i < j => FirstOccurrence(list, intent, examples[i])
                            < FirstOccurrence(list, intent, examples[j])

\* an intent given 'yo', 'Hi', 'yo' again and 'hi' keeps 'yo', 'Hi', 'hi'
C16_Witness ==
  /\ ReturnedFrom("convert_annotations_to_nlu_dict")
  /\ Len(response.annotation_list) = 4
  /\ \A i \in 1..4 : response.annotation_list[i].corrected_intent = <<"a">>
  /\ Rendered(response.annotation_list[3])
       = Rendered(response.annotation_list[1])
  /\ response.result =
       <<[intent |-> <<"a">>,
          examples |-> <<<<"y", "o">>, <<"H", "i">>, <<"h", "i">>>>]>>

\* the literal block of an example list: one "- example" line each, in
\* list order
RECURSIVE LiteralBlock(_)
LiteralBlock(examples) ==
  IF examples = <<>> THEN <<>>
  ELSE <<"-", " ">> \o Head(examples) \o <<"\n">>
         \o LiteralBlock(Tail(examples))

\* C18: for every intent-to-examples mapping, convert_to_rasa_nlu_yaml
\* emits exactly one block per intent, the blocks in ascending order of
\* intent label whatever the insertion order of the mapping, and in each
\* block the examples in the order of the mapping's list.
C18_BlocksSortedExamplesKept ==
  ReturnedFrom("convert_to_rasa_nlu_yaml") =>
    LET nlu_dict == response.nlu_dict
        nlu == yaml_safe_load(response.result).nlu
    IN /\ Len(nlu) = Len(nlu_dict)
       /\ {nlu[i].intent : i \in DOMAIN nlu} = DictKeys(nlu_dict)
       /\ \A i, j \in DOMAIN nlu :
            i < j => StrLess(nlu[i].intent, nlu[j].intent)
       /\ \A i \in DOMAIN nlu :
            nlu[i].examples = LiteralBlock(DictGet(nlu_dict, nlu[i].intent))

\* the mapping inserted as zeta, alpha, mid, zeta with examples 'yo', 'hi',
\* is written as alpha, mid, zeta and zeta's examples stay 'yo', 'hi'
C18_Witness ==
  /\ ReturnedFrom("convert_to_rasa_nlu_yaml")
  /\ Len(response.nlu_dict) = 3
  /\ response.nlu_dict[1] =
       [intent |-> <<"z", "e", "t", "a">>,
        examples |-> <<<<"y", "o">>, <<"h", "i">>>>]
  /\ response.nlu_dict[2].intent = <<"a", "l", "p", "h", "a">>
  /\ LET nlu == yaml_safe_load(response.result).nlu
     IN /\ [i \in DOMAIN nlu |-> nlu[i].intent] =
             <<<<"a", "l", "p", "h", "a">>, <<"m", "i", "d">>,
               <<"z", "e", "t", "a">>>>
        /\ nlu[3].examples =
             <<"-", " ", "y", "o", "\n", "-", " ", "h", "i", "\n">>

\* the spans of an entity list are inside the text and pairwise disjoint
ValidSpans(text, entities) ==
  /\ \A i \in DOMAIN entities :
       /\ 0 <= entities[i].start
       /\ entities[i].start < entities[i].end
       /\ entities[i].end <= Len(text)
  /\ \A i, j \in DOMAIN entities :
       i # j => \/ entities[i].end <= entities[j].start
                \/ entities[j].end <= entities[i].start

\* the text from offset i on, read left to right: a span that starts here
\* is written as [text[start:end]](label), any other character as it is
RECURSIVE Marked(_, _, _)
Marked(text, entities, i) ==
  IF i >= Len(text) THEN <<>>
  ELSE IF \E k \in DOMAIN entities : entities[k].start = i
  THEN LET entity == entities[CHOOSE k \in DOMAIN entities :
                                 entities[k].start = i]
       IN <<"[">> \o SubSeq(text, i + 1, entity.end) \o <<"]", "(">>
            \o entity.entity \o <<")">>
            \o Marked(text, entities, entity.end)
  ELSE <<text[i + 1]>> \o Marked(text, entities, i + 1)

\* the entities of a list, whatever their order
EntitySet(entities) == {entities[k] : k \in DOMAIN entities}

\* C19: for every text T and every entity list whose spans satisfy
\* 0 <= start < end <= len(T) and do not overlap, _format_entity_in_text
\* returns T with each span replaced by [T[start:end]](label) and every
\* other character kept in place, whatever the order of the list; with no
\* entity it returns T, and with one entity spanning T it returns
\* [T](label).
C19_RenderReplacesSpans ==
  (/\ ReturnedFrom("_format_entity_in_text")
   /\ ValidSpans(response.text, response.entities))
  => LET text == response.text
         entities == response.entities
     IN /\ response.result = Marked(text, entities, 0)
        /\ \A other \in SeqsUpTo(EntitySet(entities), Len(entities)) :
             (Len(other) = Len(entities)
                /\ EntitySet(other) = EntitySet(entities))
             => _format_entity_in_text(text, other) = response.result
        /\ entities = <<>> => response.result = text
        /\ (/\ Len(entities) = 1
            /\ entities[1].start = 0
            /\ entities[1].end = Len(text))
           => response.result =
                <<"[">> \o text \o <<"]", "(">> \o entities[1].entity
                  \o <<")">>

\* 'hola' with 'h' as p and 'la' as q, listed in ascending order of start
\* (the substitution runs from the last span back): [h](p)o[la](q)
C19_Witness ==
  /\ ReturnedFrom("_format_entity_in_text")
  /\ response.text = <<"h", "o", "l", "a">>
  /\ response.entities =
       <<Ent(<<"p">>, response.text, 0, 1), Ent(<<"q">>, response.text, 2, 4)>>
  /\ response.result =
       <<"[", "h", "]", "(", "p", ")", "o",
         "[", "l", "a", "]", "(", "q", ")">>

\* an entity dict holds all four keys with a non-empty label, a non-empty
\* value, offsets inside the text and the value the text has there
WellFormed(text, ent) ==
  /\ DOMAIN ent = {"entity", "value", "start", "end"}
  /\ ent.entity # NULL /\ ent.entity # <<>>
  /\ ent.value # NULL /\ ent.value # <<>>
  /\ ent.start # NullOffset /\ ent.end # NullOffset
  /\ 0 <= ent.start /\ ent.start < ent.end /\ ent.end <= Len(text)
  /\ ent.value = SubSeq(text, ent.start + 1, ent.end)

\* two spans share a position
Overlap(a, b) == a.start < b.end /\ b.start < a.end

\* C20: validate_entity_spans(text, entities) returns is_valid = true if
\* and only if the text is non-empty, every entity has a non-empty label,
\* a non-empty value, both offsets with 0 <= start < end <= len(text) and
\* the value text[start:end], and no two entities overlap; and is_valid is
\* true exactly when the returned error list is empty.
C20_ValidIffWellFormed ==
  ReturnedFrom("validate_entity_spans") =>
    LET text == response.text
        entities == response.entities
        result == response.result
    IN /\ (result.raised = "none" /\ result.is_valid)
            = (/\ text # <<>>
               /\ \A i \in DOMAIN entities : WellFormed(text, entities[i])
               /\ \A i, j \in DOMAIN entities :
                    i # j => ~Overlap(entities[i], entities[j]))
       /\ result.raised = "none"
            => (result.is_valid = (result.errors = <<>>))

\* 'hi' with 'i' and 'h' as two entities, listed in descending order of
\* start, is valid: the spans touch and do not overlap
C20_Witness ==
  /\ ReturnedFrom("validate_entity_spans")
  /\ response.text = SpanText
  /\ response.entities =
       <<Ent(<<"p">>, SpanText, 1, 2), Ent(<<"p">>, SpanText, 0, 1)>>
  /\ response.result.is_valid

\* the entity types in the markup of the examples of an intent
MarkupTypes(examples) ==
  UNION {LET types == findall_entity_types(examples[i], 0)
         IN {types[k] : k \in DOMAIN types} : i \in DOMAIN examples}

\* C21: validate_annotations_export never returns an error; it returns
\* exactly one warning for each intent of the mapping that is not in the
\* reference intents, and exactly one for each distinct pair of an intent
\* and an entity type that is in the markup of an example of that intent
\* and not in the reference entity types, however often the pair occurs.
C21_OneWarningPerDrift ==
  ReturnedFrom("validate_annotations_export") =>
    LET nlu_dict == response.nlu_dict
        warnings == response.result.warnings
    IN /\ response.result.errors = <<>>
       /\ \A i, j \in DOMAIN warnings : warnings[i] = warnings[j] => i = j
       /\ {warnings[i] : i \in DOMAIN warnings} =
            {IntentWarning(intent) :
               intent \in DictKeys(nlu_dict) \ existing_intents}
            \cup UNION {{EntityWarning(type, nlu_dict[k].intent) :
                           type \in MarkupTypes(nlu_dict[k].examples)
                                      \ existing_entities} :
                        k \in DOMAIN nlu_dict}

\* the unknown intent b with the unknown type p three times in two
\* examples, and the known intent a with p once: three warnings
C21_Witness ==
  /\ ReturnedFrom("validate_annotations_export")
  /\ response.nlu_dict =
       <<[intent |-> <<"b">>,
          examples |->
            <<<<"[", "h", "]", "(", "p", ")", "[", "i", "]", "(", "p", ")">>,
              <<"[", "y", "]", "(", "p", ")", "o">>>>],
         [intent |-> <<"a">>,
          examples |-> <<<<"[", "y", "]", "(", "p", ")", "o">>>>]>>
  /\ response.result.warnings =
       <<IntentWarning(<<"b">>), EntityWarning(<<"p">>, <<"b">>),
         EntityWarning(<<"p">>, <<"a">>)>>

\* C22 (as claimed): two previews, or two downloads, with the same filters
\* against the same set of approved annotations return the same document,
\* examples in the same order, also when annotations of one intent have
\* equal approval timestamps.
C22_ExportDeterministic ==
  \A s1, s2 \in 1..MaxSessions :
    /\ (/\ DoneExport(s1, "preview")
        /\ DoneExport(s2, "preview")
        /\ sessions[s1].filters = sessions[s2].filters)
       => sessions[s1].yaml_content = sessions[s2].yaml_content
    /\ (/\ DoneExport(s1, "download")
        /\ DoneExport(s2, "download")
        /\ sessions[s1].filters = sessions[s2].filters)
       => sessions[s1].content = sessions[s2].content

\* the defects of one entity dict, counted one by one: label, value, start
\* and end missing, and for an entity with both offsets a negative start,
\* an end past the text, start >= end, and a value that is not the text of
\* an in-range span
Count(condition) == IF condition THEN 1 ELSE 0

DefectCount(text, ent) ==
  LET entity_type == get(ent, "entity", NULL)
      value == get(ent, "value", NULL)
      start == get(ent, "start", NullOffset)
      end == get(ent, "end", NullOffset)
  IN Count(Falsy(entity_type)) + Count(Falsy(value))
       + Count(start = NullOffset) + Count(end = NullOffset)
       + (IF start = NullOffset \/ end = NullOffset THEN 0
          ELSE Count(start < 0) + Count(end > Len(text))
                 + Count(start >= end)
                 + Count(/\ 0 <= start /\ start < end /\ end <= Len(text)
                         /\ ~Falsy(value)
                         /\ value # SubSeq(text, start + 1, end)))

RECURSIVE DefectsOf(_, _)
DefectsOf(text, entities) ==
  IF entities = <<>> THEN 0
  ELSE DefectCount(text, Head(entities)) + DefectsOf(text, Tail(entities))

\* C23 (as claimed): on a non-empty text validate_entity_spans reports at
\* least one error per defect, never stopping at the first: an entity
\* without start and without end gets an error for each, and the defects
\* of later entities are reported after an earlier entity failed.
C23_ErrorsAccumulate ==
  (ReturnedFrom("validate_entity_spans") /\ response.text # <<>>)
  => /\ response.result.raised = "none"
     /\ Len(response.result.errors)
          >= DefectsOf(response.text, response.entities)

\* the entity passed the offset checks
OffsetsValid(text, ent) ==
  /\ {"start", "end"} \subseteq DOMAIN ent
  /\ ent.start # NullOffset /\ ent.end # NullOffset
  /\ 0 <= ent.start /\ ent.start < ent.end /\ ent.end <= Len(text)

\* C24 (as claimed): the overlap check of validate_entity_spans looks only
\* at entities that passed the offset checks: every overlap error names
\* two such entities, the first not starting after the second and ending
\* after the second starts.
C24_OverlapOnlyValidSpans ==
  (ReturnedFrom("validate_entity_spans") /\ response.result.raised = "none")
  => \A i \in DOMAIN response.result.errors :
       LET error == response.result.errors[i]
       IN error.kind = "overlap"
          => /\ OffsetsValid(response.text, error.current)
             /\ OffsetsValid(response.text, error.next_ent)
             /\ error.current.start <= error.next_ent.start
             /\ error.current.end > error.next_ent.start

\* a step in which session s commits its update or delete
EditCommits(s) ==
  /\ sessions[s].pc \in {"update_loaded", "delete_loaded"}
  /\ sessions'[s].pc = "done"
  /\ sessions'[s].code \in {200, 204}

\* C25 (as claimed): update, delete and approve each re-read the status
\* atomically with their write: however a non-admin creator's update or
\* delete interleaves with a reviewer's approve of the same annotation,
\* the edit or delete does not change or remove a row whose committed
\* status is approved.
C25_EditNeverHitsApproved ==
  [][\A s \in 1..MaxSessions :
       (/\ EditCommits(s)
        /\ UserRole(sessions[s].user) # "admin"
        /\ Exists(sessions[s].id)
        /\ annotations[sessions[s].id].status = "approved")
       => annotations' = annotations]_vars

\* the approved annotations whose approval time lies from midnight of
\* from_date to the end of the day to_date
MatchingThrough(filters) ==
  {id \in DOMAIN annotations :
     /\ annotations[id].status = "approved"
     /\ filters.from_date # NoDate
          => annotations[id].approved_at >= strptime(filters.from_date)
     /\ filters.to_date # NoDate
          => annotations[id].approved_at < strptime(filters.to_date + 1)
     /\ ~Falsy(filters.intent_filter)
          => annotations[id].corrected_intent = filters.intent_filter}

\* C26 (as claimed): to_date = D takes in the whole day D: preview and
\* download export the approved annotations whose approval time t
\* satisfies F 00:00 <= t < (D + 1 day) 00:00, so preview counts exactly
\* those and download answers 404 exactly when there is none.
C26_EndDateInclusive ==
  \A s \in 1..MaxSessions :
    /\ ServedExport(s, "preview")
         => sessions[s].stats.total_annotations
              = Cardinality(MatchingThrough(sessions[s].filters))
    /\ ServedExport(s, "download")
         => (sessions[s].code = 404)
              = (MatchingThrough(sessions[s].filters) = {})

\* approved annotations match the filters and none of them has an intent
OnlyUnlabelled(filters) ==
  /\ Matching(filters) # {}
  /\ \A id \in Matching(filters) : Falsy(annotations[id].corrected_intent)

\* C27: when approved annotations match the filters and every one of them
\* has a null or empty corrected_intent, the export fails structurally and
\* is not an empty result: preview answers a document without intent
\* block, with validation errors and can_export false, and download
\* answers 400, not 404.
C27_UnlabelledIsStructuralFailure ==
  \A s \in 1..MaxSessions :
    /\ (ServedExport(s, "preview") /\ OnlyUnlabelled(sessions[s].filters))
         => /\ sessions[s].code = 200
            /\ sessions[s].yaml_content # Placeholder
            /\ BlockIntents(sessions[s].yaml_content) = {}
            /\ sessions[s].validation_errors # <<>>
            /\ ~sessions[s].can_export
    /\ (ServedExport(s, "download") /\ OnlyUnlabelled(sessions[s].filters))
         => sessions[s].code = 400

\* a preview and a download both served on approved annotations that all
\* lack an intent
C27_Witness ==
  \E s1, s2 \in 1..MaxSessions :
    /\ ServedExport(s1, "preview")
    /\ ServedExport(s2, "download")
    /\ OnlyUnlabelled(sessions[s1].filters)
    /\ OnlyUnlabelled(sessions[s2].filters)
    /\ sessions[s1].stats.total_annotations > 0
    /\ sessions[s2].code = 400

\* the entity has both offsets, start before end
HasSpan(ent) ==
  /\ {"start", "end"} \subseteq DOMAIN ent
  /\ ent.start # NullOffset /\ ent.end # NullOffset
  /\ ent.start < ent.end

IsOverlapError(error) == error.kind = "overlap"

\* C28: the overlap check by adjacent pairs misses nothing: for a
\* non-empty text and entities that all have both offsets with
\* start < end, when any two of them, neighbours in start order or not,
\* have intersecting spans, validate_entity_spans returns an overlap error
\* and is_valid = false.
C28_AdjacentPairsComplete ==
  (/\ ReturnedFrom("validate_entity_spans")
   /\ response.text # <<>>
   /\ \A i \in DOMAIN response.entities : HasSpan(response.entities[i])
   /\ \E i, j \in DOMAIN response.entities :
        i # j /\ Overlap(response.entities[i], response.entities[j]))
  => /\ response.result.raised = "none"
     /\ ~response.result.is_valid
     /\ \E k \in DOMAIN response.result.errors :
          IsOverlapError(response.result.errors[k])

\* 'hola' with the spans 0..1, 1..3 and 2..4 given as 2..4, 0..1, 1..3:
\* the two overlapping spans are the last two in start order and are not
\* neighbours in the list
C28_Witness ==
  /\ ReturnedFrom("validate_entity_spans")
  /\ response.text = OverlapText
  /\ Len(response.entities) = 3
  /\ <<response.entities[1].start, response.entities[1].end>> = <<2, 4>>
  /\ <<response.entities[2].start, response.entities[2].end>> = <<0, 1>>
  /\ <<response.entities[3].start, response.entities[3].end>> = <<1, 3>>
  /\ response.result.errors =
       <<OverlapError(response.entities[3], response.entities[1])>>

\* C29: every intent key of the mapping convert_annotations_to_nlu_dict
\* returns has a non-empty example list, for every input list; so every
\* intent block the serializer writes has an example line and the
\* statistics have total_examples >= total_intents.
C29_NoEmptyIntent ==
  ReturnedFrom("convert_annotations_to_nlu_dict") =>
    LET nlu_dict == response.result
        nlu == yaml_safe_load(convert_to_rasa_nlu_yaml(nlu_dict)).nlu
        stats == get_nlu_export_stats(nlu_dict)
    IN /\ \A k \in DOMAIN nlu_dict : nlu_dict[k].examples # <<>>
       /\ Len(nlu) = Len(nlu_dict)
       /\ \A i \in DOMAIN nlu : nlu[i].examples # <<>>
       /\ stats.total_examples >= stats.total_intents

\* 'hi' given under intent a, under no intent and under intent b: two
\* keys, each with the one example
C29_Witness ==
  /\ ReturnedFrom("convert_annotations_to_nlu_dict")
  /\ Len(response.annotation_list) = 3
  /\ \A i \in 1..3 : Rendered(response.annotation_list[i]) = <<"h", "i">>
  /\ response.annotation_list[2].corrected_intent = NULL
  /\ response.result =
       <<[intent |-> <<"a">>, examples |-> <<<<"h", "i">>>>],
         [intent |-> <<"b">>, examples |-> <<<<"h", "i">>>>]>>

\* C30 (as claimed): over any sequence of create, update, delete,
\* approve/reject, preview and download requests every status is pending,
\* approved or rejected, and an approved annotation stays approved and is
\* in the document of every preview and download whose filters match it.
C30_ApprovedKeepsBeingExported ==
  [][/\ \A id \in DOMAIN annotations' :
          annotations'[id].status \in {"pending", "approved", "rejected"}
     /\ \A id \in DOMAIN annotations :
          annotations[id].status = "approved"
          => /\ id \in DOMAIN annotations'
             /\ annotations'[id].status = "approved"
     /\ Exported(response')
          => \A id \in DOMAIN annotations :
               (/\ Matches(annotations[id], response'.filters)
                /\ ~Falsy(annotations[id].corrected_intent))
               => [intent |-> annotations[id].corrected_intent,
                   example |-> Rendered(annotations[id])]
                    \in ExampleLines(Document(response'))]_vars

====
